---- MODULE Spec2Model ----
(***************************************************************************)
(* Metrics subsystem of the voice-agent stack: the MetricsCollector, its   *)
(* three storage backends (MemoryStorage, FileStorage, RedisStorage), the  *)
(* query operations built on them, the Query Service (metrics_api.py) and  *)
(* the language-model wrapper (MetricsLLMWrapper).                         *)
(*                                                                         *)
(* Conventions.  Python None is the value None below.  Durations and       *)
(* timestamps are integers (tenths of a second); the sampling rate and the *)
(* random draw are percentages (random.random() in [0,1) is 0..99).  The   *)
(* quotient output_tokens / total_time is kept as an exact reduced         *)
(* fraction <<numerator, denominator>>.  A Python dict is a TLA+ record;   *)
(* its JSON text is the sequence of its <<key, value>> members in the      *)
(* dict's insertion order.  Call ids are non-empty strings.                *)
(***************************************************************************)
EXTENDS Integers, Sequences, FiniteSets, Bags, TLC

VARIABLES
    config,           \* MetricsCollector.config (a MetricsConfig)
    current_call_id,  \* MetricsCollector.current_call_id
    metrics,          \* MemoryStorage.metrics
    file_exists,      \* whether FileStorage.file_path exists on disk
    file_lines,       \* the lines of the file at FileStorage.file_path
    redis_lists,      \* the key-value store: key -> list of JSON texts
    redis_ttl,        \* the key-value store: key -> expiry in seconds
    calls,            \* number of record_* calls made so far, per kind
    written,          \* log of the arguments of the store_metric calls made
    lastOp,           \* the operation performed last and its inputs
    result,           \* the value the last operation returned
    metrics_collector,\* the Query Service's global metrics_collector
    store_pc,         \* position of the RedisStorage.store_metric in flight
    llm,              \* a language-model client and the call made on it
    component,        \* the object handed to wrap_with_metrics
    tasks,            \* the record_* tasks created and not yet run
    stream,           \* the wrapped generation call in progress and the clock
    service,          \* the Query Service process: its state and environment
    query_pc          \* position of the get_call_summary in flight

vars == <<config, current_call_id, metrics, file_exists, file_lines,
          redis_lists, redis_ttl, calls, written, lastOp, result,
          metrics_collector, store_pc, llm, component, tasks, stream,
          service, query_pc>>

backend == <<metrics, file_exists, file_lines, redis_lists, redis_ttl>>

\* the clients being instrumented and the instrumented calls in progress
wrap == <<llm, component, tasks, stream>>

\* state that the collector's own methods never touch
ext == <<metrics_collector, store_pc, wrap, service, query_pc>>

(***************************************************************************)
(* Bounds and input sets                                                   *)
(***************************************************************************)
MaxCalls == 2       \* record_* calls per behaviour (Spec)
MaxStores == 3      \* store_metric calls per behaviour (SpecBackends)
MaxPosts == 1       \* POST /metrics/test requests served per behaviour (SpecApi)
MaxRecords == 5     \* records held by the backend (SpecPercentile)
MaxCount == 200     \* list lengths for which the p95 index is computed
MaxChunks == 3      \* chunks a streaming method yields (SpecWrapper)
MaxTasks == 2       \* wrapped generation calls per behaviour (SpecTasks)

None == "<None>"
Kinds == {"llm", "tts", "asr", "eou"}
CallIds == {"A"}
TestCallId == "test_call_123"
StorageTypes == {"memory", "file", "redis"}
SampleRates == {0, 50, 100}
Draws == {0, 99}
NoExpiry == -1
RedisExpire == 86400

\* store_pc while no RedisStorage.store_metric is in flight
NoStore == [at |-> "idle"]

\* stream while no wrapped generation call has been made; now is the clock,
\* scheduled the tasks the call in progress has created
NoStream ==
    [pc |-> "idle", now |-> 0, start |-> 0, remaining |-> <<>>, yielded |-> 0,
     first_at |-> -1, end_at |-> -1, made |-> 0, scheduled |-> <<>>]

\* os.environ: the settings MetricsConfig.from_env reads (None: not set)
Environ(enabled, storage_type, redis_port, sample_rate) ==
    [METRICS_ENABLED |-> enabled, METRICS_STORAGE_TYPE |-> storage_type,
     METRICS_REDIS_PORT |-> redis_port, METRICS_SAMPLE_RATE |-> sample_rate]

\* service in a Query Service that is up, started with nothing set
NoService == [state |-> "serving", env |-> Environ(None, None, None, None)]

\* query_pc while no get_call_summary is in flight
NoQuery == [at |-> "idle"]

\* component where no object is being wrapped
NoComponent == [methods |-> {}, writable |-> TRUE, replaced |-> {}]

\* Python truthiness of an optional string
Truthy(x) == x # None /\ x # ""

(***************************************************************************)
(* Metric record types (the dataclasses, as asdict() returns them)         *)
(***************************************************************************)
LLMMetric(timestamp, call_id, ttft, input_tokens, output_tokens, model, total_time, tokens_per_second) ==
    [timestamp |-> timestamp, call_id |-> call_id, ttft |-> ttft,
     input_tokens |-> input_tokens, output_tokens |-> output_tokens,
     model |-> model, total_time |-> total_time,
     tokens_per_second |-> tokens_per_second]

TTSMetric(timestamp, call_id, ttfb, audio_duration, text_length, model, voice_id) ==
    [timestamp |-> timestamp, call_id |-> call_id, ttfb |-> ttfb,
     audio_duration |-> audio_duration, text_length |-> text_length,
     model |-> model, voice_id |-> voice_id]

ASRMetric(timestamp, call_id, audio_duration, processing_time, text_length, model, language) ==
    [timestamp |-> timestamp, call_id |-> call_id,
     audio_duration |-> audio_duration, processing_time |-> processing_time,
     text_length |-> text_length, model |-> model, language |-> language]

EOUMetric(timestamp, call_id, eou_delay, confidence) ==
    [timestamp |-> timestamp, call_id |-> call_id, eou_delay |-> eou_delay,
     confidence |-> confidence]

\* the order in which asdict() lists the fields of each dataclass
FieldOrder(kind) ==
    CASE kind = "llm" -> <<"timestamp", "call_id", "ttft", "input_tokens",
                           "output_tokens", "model", "total_time",
                           "tokens_per_second">>
      [] kind = "tts" -> <<"timestamp", "call_id", "ttfb", "audio_duration",
                           "text_length", "model", "voice_id">>
      [] kind = "asr" -> <<"timestamp", "call_id", "audio_duration",
                           "processing_time", "text_length", "model",
                           "language">>
      [] kind = "eou" -> <<"timestamp", "call_id", "eou_delay",
                           "confidence">>

(***************************************************************************)
(* Helpers                                                                 *)
(***************************************************************************)
RECURSIVE GCD(_, _)
GCD(a, b) == IF b = 0 THEN a ELSE GCD(b, a % b)

\* the float a / b (b > 0, a >= 0), exactly
Quotient(a, b) == LET g == GCD(a, b) IN <<a \div g, b \div g>>

\* metric["metric_type"] = metric_type
SetMetricType(metric, metric_type) ==
    [f \in (DOMAIN metric) \cup {"metric_type"} |->
        IF f = "metric_type" THEN metric_type ELSE metric[f]]

\* dict.get(key) with the default None
DictGet(m, key) == IF key \in DOMAIN m THEN m[key] ELSE None

\* dict.get(key, default)
DictGetOr(m, key, default) == IF key \in DOMAIN m THEN m[key] ELSE default

\* json.dumps of a stored metric: its members in insertion order, i.e. the
\* dataclass fields in declaration order, then every key added afterwards
JsonDumps(m) ==
    LET order == IF "metric_type" \in DOMAIN m
                 THEN Append(FieldOrder(m.metric_type), "metric_type")
                 ELSE CHOOSE s \in [1..Cardinality(DOMAIN m) -> DOMAIN m] :
                        \A f \in DOMAIN m : \E i \in DOMAIN s : s[i] = f
    IN  [i \in DOMAIN order |-> <<order[i], m[order[i]]>>]

\* json.loads of one JSON object: the last member with a name wins
JsonLoads(text) ==
    [f \in {text[i][1] : i \in DOMAIN text} |->
        text[CHOOSE i \in DOMAIN text :
                /\ text[i][1] = f
                /\ \A j \in DOMAIN text : text[j][1] = f => j <= i][2]]

\* [json.loads(text) for text in texts]
LoadAll(texts) == [i \in DOMAIN texts |-> JsonLoads(texts[i])]

\* the multiset of the elements of a sequence
SeqToBag(seq) ==
    [r \in {seq[i] : i \in DOMAIN seq} |->
        Cardinality({i \in DOMAIN seq : seq[i] = r})]

\* sequence.extend over a sequence of sequences
RECURSIVE Flatten(_)
Flatten(ss) == IF ss = <<>> THEN <<>> ELSE Head(ss) \o Flatten(Tail(ss))

\* all orders in which the elements of a finite set can be listed
Orders(S) ==
    {s \in [1..Cardinality(S) -> S] : \A x \in S : \E i \in DOMAIN s : s[i] = x}

(***************************************************************************)
(* MemoryStorage                                                           *)
(***************************************************************************)
\* faulty variant: the record is inserted at the head of the list
MemoryStorage_store_metric_prepend(list, metric_type, metric) ==
    <<SetMetricType(metric, metric_type)>> \o list

MemoryStorage_store_metric(list, metric_type, metric) ==
    Append(list, SetMetricType(metric, metric_type))

\* faulty variant: the second filter scans self.metrics instead of the filtered list
MemoryStorage_get_metrics_rescan(list, call_id, metric_type) ==
    IF Truthy(metric_type)
    THEN SelectSeq(list, LAMBDA m : DictGet(m, "metric_type") = metric_type)
    ELSE IF Truthy(call_id)
         THEN SelectSeq(list, LAMBDA m : DictGet(m, "call_id") = call_id)
         ELSE list

MemoryStorage_get_metrics(list, call_id, metric_type) ==
    LET byCall == IF Truthy(call_id)
                  THEN SelectSeq(list, LAMBDA m : DictGet(m, "call_id") = call_id)
                  ELSE list
    IN  IF Truthy(metric_type)
        THEN SelectSeq(byCall, LAMBDA m : DictGet(m, "metric_type") = metric_type)
        ELSE byCall

(***************************************************************************)
(* FileStorage (JSONL)                                                     *)
(***************************************************************************)
\* faulty variant: the file is opened with "w", which truncates it
FileStorage_store_metric_truncate(lines, metric_type, metric) ==
    <<JsonDumps(SetMetricType(metric, metric_type))>>

\* open(file_path, "a") creates the file; one JSON text is appended
FileStorage_store_metric(lines, metric_type, metric) ==
    Append(lines, JsonDumps(SetMetricType(metric, metric_type)))

FileStorage_get_metrics(exists, lines, call_id, metric_type) ==
    IF ~exists
    THEN <<>>
    ELSE LET loaded == LoadAll(SelectSeq(lines, LAMBDA line : line # <<>>))
             byCall == IF Truthy(call_id)
                       THEN SelectSeq(loaded,
                                LAMBDA m : DictGet(m, "call_id") = call_id)
                       ELSE loaded
         IN  IF Truthy(metric_type)
             THEN SelectSeq(byCall,
                      LAMBDA m : DictGet(m, "metric_type") = metric_type)
             ELSE byCall

(***************************************************************************)
(* RedisStorage                                                            *)
(***************************************************************************)
\* f"metrics:{call_id}"
RedisKey(call_id) == <<"metrics", call_id>>

RedisKeys == {RedisKey(c) : c \in CallIds \cup {"unknown", TestCallId}}

\* redis.lpush(key, value): the value becomes the head of the list
Lpush(lists, key, value) == [lists EXCEPT ![key] = <<value>> \o @]

\* redis.expire(key, seconds)
Expire(ttl, key, seconds) == [ttl EXCEPT ![key] = seconds]

\* redis.lrange(key, 0, -1)
Lrange(lists, key) == lists[key]

\* redis.keys("metrics:*"): the keys that exist, i.e. hold a non-empty list
ExistingKeys(lists) == {k \in DOMAIN lists : lists[k] # <<>>}

RedisStorage_store_metric_lists(lists, metric_type, metric) ==
    LET m == SetMetricType(metric, metric_type)
        key == RedisKey(DictGetOr(m, "call_id", "unknown"))
    IN  Lpush(lists, key, JsonDumps(m))

RedisStorage_store_metric_ttl(ttl, metric_type, metric) ==
    LET m == SetMetricType(metric, metric_type)
        key == RedisKey(DictGetOr(m, "call_id", "unknown"))
    IN  Expire(ttl, key, RedisExpire)

\* keyOrder is the order in which redis.keys lists the existing keys
RedisStorage_get_metrics(lists, keyOrder, call_id, metric_type) ==
    LET loaded ==
            IF Truthy(call_id)
            THEN LoadAll(Lrange(lists, RedisKey(call_id)))
            ELSE Flatten([i \in DOMAIN keyOrder |->
                            LoadAll(Lrange(lists, keyOrder[i]))])
    IN  IF Truthy(metric_type)
        THEN SelectSeq(loaded,
                 LAMBDA m : DictGet(m, "metric_type") = metric_type)
        ELSE loaded

(***************************************************************************)
(* MetricsConfig and MetricsCollector                                      *)
(***************************************************************************)
MetricsConfig ==
    [enabled : BOOLEAN, storage_type : StorageTypes,
     collect_llm_metrics : BOOLEAN, collect_tts_metrics : BOOLEAN,
     collect_asr_metrics : BOOLEAN, collect_eou_metrics : BOOLEAN,
     sample_rate : SampleRates]

\* MetricsCollector._create_storage: the class of self.storage
create_storage(cfg) ==
    IF ~cfg.enabled THEN "memory"
    ELSE IF cfg.storage_type = "redis" THEN "redis"
    ELSE IF cfg.storage_type = "file" THEN "file"
    ELSE "memory"

\* faulty variant: the draw is compared with <=
should_collect_le(cfg, draw) ==
    IF ~cfg.enabled THEN FALSE ELSE draw <= cfg.sample_rate

\* faulty variant: the comparison is inverted
should_collect_gt(cfg, draw) ==
    IF ~cfg.enabled THEN FALSE ELSE draw > cfg.sample_rate

\* faulty variant: the enabled flag is not consulted
should_collect_always_enabled(cfg, draw) == draw < cfg.sample_rate

\* MetricsCollector._should_collect, draw being random.random()
should_collect(cfg, draw) ==
    IF ~cfg.enabled THEN FALSE ELSE draw < cfg.sample_rate

\* faulty variant: the call id is never read
CallIdOrUnknown_constant(cid) == "unknown"

\* self.current_call_id or "unknown"
CallIdOrUnknown(cid) == IF Truthy(cid) THEN cid ELSE "unknown"

\* await self.storage.store_metric(metric_type, metric)
storage_store_metric(metric_type, metric) ==
    /\ written' = Append(written, [metric_type |-> metric_type, metric |-> metric])
    /\ CASE create_storage(config) = "memory" ->
              /\ metrics' = MemoryStorage_store_metric(metrics, metric_type, metric)
              /\ UNCHANGED <<file_exists, file_lines, redis_lists, redis_ttl>>
         [] create_storage(config) = "file" ->
              /\ file_exists' = TRUE
              /\ file_lines' = FileStorage_store_metric(file_lines, metric_type, metric)
              /\ UNCHANGED <<metrics, redis_lists, redis_ttl>>
         [] create_storage(config) = "redis" ->
              /\ redis_lists' = RedisStorage_store_metric_lists(redis_lists, metric_type, metric)
              /\ redis_ttl' = RedisStorage_store_metric_ttl(redis_ttl, metric_type, metric)
              /\ UNCHANGED <<metrics, file_exists, file_lines>>

\* await self.storage.get_metrics(call_id, metric_type)
storage_get_metrics(keyOrder, call_id, metric_type) ==
    CASE create_storage(config) = "memory" ->
            MemoryStorage_get_metrics(metrics, call_id, metric_type)
      [] create_storage(config) = "file" ->
            FileStorage_get_metrics(file_exists, file_lines, call_id, metric_type)
      [] create_storage(config) = "redis" ->
            RedisStorage_get_metrics(redis_lists, keyOrder, call_id, metric_type)

\* faulty variant: the operands of the division are swapped
TokensPerSecond_swapped(output_tokens, total_time) ==
    IF total_time > 0 THEN Quotient(total_time, output_tokens) ELSE <<0, 1>>

\* output_tokens / total_time if total_time > 0 else 0
TokensPerSecond(output_tokens, total_time) ==
    IF total_time > 0 THEN Quotient(output_tokens, total_time) ELSE <<0, 1>>

RecordGuard == calls["llm"] + calls["tts"] + calls["asr"] + calls["eou"] < MaxCalls

RecordOp(kind, draw, stored) ==
    [op |-> "record", kind |-> kind, draw |-> draw, arg |-> None,
     backend_calls |-> IF stored THEN 1 ELSE 0]

set_call_id(call_id) ==
    /\ current_call_id' = call_id
    /\ lastOp' = [op |-> "set_call_id", kind |-> None, draw |-> 0,
                  arg |-> call_id, backend_calls |-> 0]
    /\ result' = None
    /\ UNCHANGED <<config, backend, calls, written, ext>>

\* timestamp is the reading of time.time(), draw that of random.random()
record_llm_metric(ttft, input_tokens, output_tokens, model, total_time, timestamp, draw) ==
    /\ RecordGuard
    /\ calls' = [calls EXCEPT !["llm"] = @ + 1]
    /\ result' = None
    /\ IF ~config.collect_llm_metrics \/ ~should_collect(config, draw)
       THEN /\ lastOp' = RecordOp("llm", draw, FALSE)
            /\ UNCHANGED <<backend, written>>
       ELSE LET tokens_per_second == TokensPerSecond(output_tokens, total_time)
                metric == LLMMetric(timestamp, CallIdOrUnknown(current_call_id),
                                    ttft, input_tokens, output_tokens, model,
                                    total_time, tokens_per_second)
            IN  /\ storage_store_metric("llm", metric)
                /\ lastOp' = RecordOp("llm", draw, TRUE)
    /\ UNCHANGED <<config, current_call_id, ext>>

\* faulty variant: collect_tts_metrics is not consulted
record_tts_metric_unflagged(ttfb, audio_duration, text_length, model, voice_id, timestamp, draw) ==
    /\ RecordGuard
    /\ calls' = [calls EXCEPT !["tts"] = @ + 1]
    /\ result' = None
    /\ IF ~should_collect(config, draw)
       THEN /\ lastOp' = RecordOp("tts", draw, FALSE)
            /\ UNCHANGED <<backend, written>>
       ELSE LET metric == TTSMetric(timestamp, CallIdOrUnknown(current_call_id),
                                    ttfb, audio_duration, text_length, model,
                                    voice_id)
            IN  /\ storage_store_metric("tts", metric)
                /\ lastOp' = RecordOp("tts", draw, TRUE)
    /\ UNCHANGED <<config, current_call_id, ext>>

record_tts_metric(ttfb, audio_duration, text_length, model, voice_id, timestamp, draw) ==
    /\ RecordGuard
    /\ calls' = [calls EXCEPT !["tts"] = @ + 1]
    /\ result' = None
    /\ IF ~config.collect_tts_metrics \/ ~should_collect(config, draw)
       THEN /\ lastOp' = RecordOp("tts", draw, FALSE)
            /\ UNCHANGED <<backend, written>>
       ELSE LET metric == TTSMetric(timestamp, CallIdOrUnknown(current_call_id),
                                    ttfb, audio_duration, text_length, model,
                                    voice_id)
            IN  /\ storage_store_metric("tts", metric)
                /\ lastOp' = RecordOp("tts", draw, TRUE)
    /\ UNCHANGED <<config, current_call_id, ext>>

record_asr_metric(audio_duration, processing_time, text_length, model, language, timestamp, draw) ==
    /\ RecordGuard
    /\ calls' = [calls EXCEPT !["asr"] = @ + 1]
    /\ result' = None
    /\ IF ~config.collect_asr_metrics \/ ~should_collect(config, draw)
       THEN /\ lastOp' = RecordOp("asr", draw, FALSE)
            /\ UNCHANGED <<backend, written>>
       ELSE LET metric == ASRMetric(timestamp, CallIdOrUnknown(current_call_id),
                                    audio_duration, processing_time,
                                    text_length, model, language)
            IN  /\ storage_store_metric("asr", metric)
                /\ lastOp' = RecordOp("asr", draw, TRUE)
    /\ UNCHANGED <<config, current_call_id, ext>>

record_eou_metric(eou_delay, confidence, timestamp, draw) ==
    /\ RecordGuard
    /\ calls' = [calls EXCEPT !["eou"] = @ + 1]
    /\ result' = None
    /\ IF ~config.collect_eou_metrics \/ ~should_collect(config, draw)
       THEN /\ lastOp' = RecordOp("eou", draw, FALSE)
            /\ UNCHANGED <<backend, written>>
       ELSE LET metric == EOUMetric(timestamp, CallIdOrUnknown(current_call_id),
                                    eou_delay, confidence)
            IN  /\ storage_store_metric("eou", metric)
                /\ lastOp' = RecordOp("eou", draw, TRUE)
    /\ UNCHANGED <<config, current_call_id, ext>>

\* faulty variant: every kind is read without the call filter
get_call_metrics_unfiltered(call_id, keyOrder) ==
    /\ result' = [llm |-> storage_get_metrics(keyOrder, None, "llm"),
                  tts |-> storage_get_metrics(keyOrder, None, "tts"),
                  asr |-> storage_get_metrics(keyOrder, None, "asr"),
                  eou |-> storage_get_metrics(keyOrder, None, "eou")]
    /\ lastOp' = [op |-> "get_call_metrics", kind |-> None, draw |-> 0,
                  arg |-> call_id, backend_calls |-> 4]
    /\ UNCHANGED <<config, current_call_id, backend, calls, written, ext>>

\* call_id is None when the argument is omitted
get_call_metrics(call_id, keyOrder) ==
    LET cid == IF Truthy(call_id) THEN call_id ELSE current_call_id
    IN  /\ result' = [llm |-> storage_get_metrics(keyOrder, cid, "llm"),
                      tts |-> storage_get_metrics(keyOrder, cid, "tts"),
                      asr |-> storage_get_metrics(keyOrder, cid, "asr"),
                      eou |-> storage_get_metrics(keyOrder, cid, "eou")]
        /\ lastOp' = [op |-> "get_call_metrics", kind |-> None, draw |-> 0,
                      arg |-> call_id, backend_calls |-> 4]
        /\ UNCHANGED <<config, current_call_id, backend, calls, written, ext>>

(***************************************************************************)
(* Spec: one collector, driven by its callers                              *)
(***************************************************************************)
Timestamps == {100}
TtftVals == {1}
TotalTimeVals == {0, 6}
InputTokenVals == {5}
OutputTokenVals == {4}
TtfbVals == {2}
ProcessingTimeVals == {5}
EouDelayVals == {3}
ConfidenceVals == {10}

EmptyBackend ==
    /\ metrics = <<>>
    /\ file_lines = <<>>
    /\ redis_lists = [k \in RedisKeys |-> <<>>]
    /\ redis_ttl = [k \in RedisKeys |-> NoExpiry]

\* the configurations explored: every kind collected, or exactly one kind off
Configs ==
    {cfg \in MetricsConfig :
        Cardinality({f \in {"collect_llm_metrics", "collect_tts_metrics",
                             "collect_asr_metrics", "collect_eou_metrics"} :
                        ~cfg[f]}) <= 1}

Init ==
    /\ config \in Configs
    /\ current_call_id = None
    /\ EmptyBackend
    /\ file_exists = FALSE
    /\ calls = [k \in Kinds |-> 0]
    /\ written = <<>>
    /\ lastOp = [op |-> "init", kind |-> None, draw |-> 0, arg |-> None,
                 backend_calls |-> 0]
    /\ result = None
    /\ metrics_collector = None
    /\ store_pc = NoStore
    /\ component = NoComponent
    /\ tasks = <<>>
    /\ stream = NoStream
    /\ query_pc = NoQuery
    /\ service = NoService
    /\ llm = None

DoSetCallId == \E c \in CallIds : set_call_id(c)

DoRecordLLM ==
    \E ttft \in TtftVals, it \in InputTokenVals, ot \in OutputTokenVals,
       tt \in TotalTimeVals, ts \in Timestamps, draw \in Draws :
        record_llm_metric(ttft, it, ot, "gpt-4o", tt, ts, draw)

DoRecordTTS ==
    \E ttfb \in TtfbVals, ts \in Timestamps, draw \in Draws :
        record_tts_metric(ttfb, 25, 25, "eleven_turbo_v2_5", "Rachel", ts, draw)

DoRecordASR ==
    \E pt \in ProcessingTimeVals, ts \in Timestamps, draw \in Draws :
        record_asr_metric(30, pt, 50, "nova-2", "en", ts, draw)

DoRecordEOU ==
    \E conf \in ConfidenceVals, d \in EouDelayVals, ts \in Timestamps,
       draw \in Draws :
        record_eou_metric(d, conf, ts, draw)

\* redis.keys is called only when no call id is given and none is set
DoGetCallMetrics ==
    \E c \in CallIds \cup {"unknown", None} :
        \E keyOrder \in (IF Truthy(c) \/ Truthy(current_call_id) THEN {<<>>}
                          ELSE Orders(ExistingKeys(redis_lists))) :
            get_call_metrics(c, keyOrder)

Next ==
    \/ DoSetCallId
    \/ DoRecordLLM
    \/ DoRecordTTS
    \/ DoRecordASR
    \/ DoRecordEOU
    \/ DoGetCallMetrics

Spec == Init /\ [][Next]_vars

(***************************************************************************)
(* SpecRestart: as Spec, and the process may be restarted.  The file and   *)
(* the key-value store outlive the process; the collector is constructed   *)
(* anew from the same environment.                                         *)
(***************************************************************************)
\* MetricsCollector.__init__ in a new process
Restart ==
    /\ current_call_id' = None
    /\ metrics' = <<>>
    /\ lastOp' = [op |-> "restart", kind |-> None, draw |-> 0, arg |-> None,
                  backend_calls |-> 0]
    /\ result' = None
    /\ UNCHANGED <<config, file_exists, file_lines, redis_lists, redis_ttl,
                   calls, written, ext>>

NextRestart == Next \/ Restart

SpecRestart == Init /\ [][NextRestart]_vars

(***************************************************************************)
(* SpecBackends: the same store_metric / get_metrics calls made on one     *)
(* instance of each storage class                                          *)
(***************************************************************************)
\* MetricsConfig(): the dataclass defaults
DefaultConfig ==
    [enabled |-> FALSE, storage_type |-> "memory",
     collect_llm_metrics |-> TRUE, collect_tts_metrics |-> TRUE,
     collect_asr_metrics |-> TRUE, collect_eou_metrics |-> TRUE,
     sample_rate |-> 100]

\* dicts a collector hands to store_metric (three of the four kinds)
StoreInputs ==
    LET cids == {"unknown", "A"}
    IN  {[metric_type |-> "llm",
          metric |-> LLMMetric(ts, c, 1, 5, 4, "gpt-4o", 6, Quotient(4, 6))] :
            ts \in Timestamps, c \in cids}
        \cup
        {[metric_type |-> "tts",
          metric |-> TTSMetric(ts, c, 2, 25, 25, "eleven_turbo_v2_5", "Rachel")] :
            ts \in Timestamps, c \in cids}
        \cup
        {[metric_type |-> "eou", metric |-> EOUMetric(ts, c, 3, 10)] :
            ts \in Timestamps, c \in cids}

InitBackends ==
    /\ config = DefaultConfig
    /\ current_call_id = None
    /\ EmptyBackend
    /\ file_exists = FALSE
    /\ calls = [k \in Kinds |-> 0]
    /\ written = <<>>
    /\ lastOp = [op |-> "init", kind |-> None, draw |-> 0, arg |-> None,
                 backend_calls |-> 0]
    /\ result = None
    /\ metrics_collector = None
    /\ store_pc = NoStore
    /\ component = NoComponent
    /\ tasks = <<>>
    /\ stream = NoStream
    /\ query_pc = NoQuery
    /\ service = NoService
    /\ llm = None

\* store_metric(metric_type, metric) on each of the three backends
StoreAll(metric_type, metric) ==
    /\ Len(written) < MaxStores
    /\ metrics' = MemoryStorage_store_metric(metrics, metric_type, metric)
    /\ file_exists' = TRUE
    /\ file_lines' = FileStorage_store_metric(file_lines, metric_type, metric)
    /\ redis_lists' = RedisStorage_store_metric_lists(redis_lists, metric_type, metric)
    /\ redis_ttl' = RedisStorage_store_metric_ttl(redis_ttl, metric_type, metric)
    /\ written' = Append(written, [metric_type |-> metric_type, metric |-> metric])
    /\ lastOp' = [op |-> "store_metric", kind |-> metric_type, draw |-> 0,
                  arg |-> None, backend_calls |-> 1]
    /\ result' = None
    /\ UNCHANGED <<config, current_call_id, calls, ext>>

\* get_metrics(call_id, metric_type) on each of the three backends
GetAll(call_id, metric_type, keyOrder) ==
    /\ result' =
         [memory |-> MemoryStorage_get_metrics(metrics, call_id, metric_type),
          file |-> FileStorage_get_metrics(file_exists, file_lines, call_id,
                                           metric_type),
          redis |-> RedisStorage_get_metrics(redis_lists, keyOrder, call_id,
                                             metric_type)]
    /\ lastOp' = [op |-> "get_metrics", kind |-> metric_type, draw |-> 0,
                  arg |-> call_id, backend_calls |-> 1]
    /\ UNCHANGED <<config, current_call_id, backend, calls, written, ext>>

DoStoreAll == \E in \in StoreInputs : StoreAll(in.metric_type, in.metric)

\* redis.keys is called only when no call id is given
DoGetAll ==
    \E c \in CallIds \cup {"unknown", None}, k \in Kinds \cup {None} :
        \E keyOrder \in (IF Truthy(c) THEN {<<>>}
                          ELSE Orders(ExistingKeys(redis_lists))) :
            GetAll(c, k, keyOrder)

NextBackends == DoStoreAll \/ DoGetAll

SpecBackends == InitBackends /\ [][NextBackends]_vars

(***************************************************************************)
(* MetricsCollector.get_call_summary and SpecSummary: Spec, with the       *)
(* summary among the queries the callers make                              *)
(***************************************************************************)
\* [m[field] for m in ms]
Column(ms, field) == [i \in DOMAIN ms |-> ms[i][field]]

RECURSIVE Sum(_)
Sum(xs) == IF xs = <<>> THEN 0 ELSE Head(xs) + Sum(Tail(xs))

\* max(xs) and min(xs) of a non-empty list
Max(xs) == CHOOSE x \in {xs[i] : i \in DOMAIN xs} : \A j \in DOMAIN xs : xs[j] <= x

Min(xs) == CHOOSE x \in {xs[i] : i \in DOMAIN xs} : \A j \in DOMAIN xs : x <= xs[j]

\* sum(xs) / len(xs) of a non-empty list, exactly
Avg(xs) == Quotient(Sum(xs), Len(xs))

\* the dict get_call_metrics returns; call_id is None when omitted
collector_get_call_metrics(call_id, keyOrder) ==
    LET cid == IF Truthy(call_id) THEN call_id ELSE current_call_id
    IN  [llm |-> storage_get_metrics(keyOrder, cid, "llm"),
         tts |-> storage_get_metrics(keyOrder, cid, "tts"),
         asr |-> storage_get_metrics(keyOrder, cid, "asr"),
         eou |-> storage_get_metrics(keyOrder, cid, "eou")]

\* faulty variant: tts_requests counts the llm records
SummaryCounts_swapped(m) ==
    [llm_requests |-> Len(m["llm"]), tts_requests |-> Len(m["llm"]),
     asr_requests |-> Len(m["asr"]), eou_events |-> Len(m["eou"])]

\* summary["counts"]
SummaryCounts(m) ==
    [llm_requests |-> Len(m["llm"]), tts_requests |-> Len(m["tts"]),
     asr_requests |-> Len(m["asr"]), eou_events |-> Len(m["eou"])]

\* summary[kind], built only when ms = metrics[kind] is non-empty
SummaryEntry(kind, ms) ==
    CASE kind = "llm" ->
            [avg_ttft |-> Avg(Column(ms, "ttft")),
             max_ttft |-> Max(Column(ms, "ttft")),
             min_ttft |-> Min(Column(ms, "ttft")),
             total_input_tokens |-> Sum(Column(ms, "input_tokens")),
             total_output_tokens |-> Sum(Column(ms, "output_tokens"))]
      [] kind = "tts" ->
            [avg_ttfb |-> Avg(Column(ms, "ttfb")),
             max_ttfb |-> Max(Column(ms, "ttfb")),
             min_ttfb |-> Min(Column(ms, "ttfb")),
             total_audio_duration |-> Sum(Column(ms, "audio_duration"))]
      [] kind = "asr" ->
            [avg_processing_time |-> Avg(Column(ms, "processing_time")),
             max_processing_time |-> Max(Column(ms, "processing_time")),
             min_processing_time |-> Min(Column(ms, "processing_time")),
             total_audio_processed |-> Sum(Column(ms, "audio_duration"))]
      [] kind = "eou" ->
            [avg_delay |-> Avg(Column(ms, "eou_delay")),
             max_delay |-> Max(Column(ms, "eou_delay")),
             min_delay |-> Min(Column(ms, "eou_delay"))]

\* the dict get_call_summary returns; now is datetime.now().isoformat()
collector_get_call_summary(call_id, keyOrder, now) ==
    LET m == collector_get_call_metrics(call_id, keyOrder)
        keys == {"call_id", "timestamp", "counts"} \cup {k \in Kinds : m[k] # <<>>}
    IN  [f \in keys |->
            CASE f = "call_id" -> IF Truthy(call_id) THEN call_id ELSE current_call_id
              [] f = "timestamp" -> now
              [] f = "counts" -> SummaryCounts(m)
              [] OTHER -> SummaryEntry(f, m[f])]

\* faulty variant: the call asked about becomes the current call
get_call_summary_selecting(call_id, keyOrder, now) ==
    /\ result' = collector_get_call_summary(call_id, keyOrder, now)
    /\ lastOp' = [op |-> "get_call_summary", kind |-> None, draw |-> 0,
                  arg |-> call_id, backend_calls |-> 4]
    /\ current_call_id' = IF Truthy(call_id) THEN call_id ELSE current_call_id
    /\ UNCHANGED <<config, backend, calls, written, ext>>

get_call_summary(call_id, keyOrder, now) ==
    /\ result' = collector_get_call_summary(call_id, keyOrder, now)
    /\ lastOp' = [op |-> "get_call_summary", kind |-> None, draw |-> 0,
                  arg |-> call_id, backend_calls |-> 4]
    /\ UNCHANGED <<config, current_call_id, backend, calls, written, ext>>

\* redis.keys is called only when no call id is given and none is set
DoGetCallSummary ==
    \E c \in CallIds \cup {"unknown", None}, now \in Timestamps :
        \E keyOrder \in (IF Truthy(c) \/ Truthy(current_call_id) THEN {<<>>}
                          ELSE Orders(ExistingKeys(redis_lists))) :
            get_call_summary(c, keyOrder, now)

NextSummary == Next \/ DoGetCallSummary

SpecSummary == Init /\ [][NextSummary]_vars

(***************************************************************************)
(* The Query Service (metrics_api.py) and SpecApi: one service process,    *)
(* started from the environment, serving one request at a time.  The       *)
(* values the test endpoint records are in milliseconds and hundredths     *)
(* (0.245 s is 245, confidence 0.95 is 95).  The backend answers every     *)
(* call here, so the handlers' except branches are taken only for an       *)
(* error raised in the handler itself.                                     *)
(***************************************************************************)
ApiCallIds == {TestCallId, "A"}
RouteMetricTypes == Kinds \cup {"bogus", "LLM"}
\* Optional[int] query values: <<>> when absent, <<n>> when given
Limits == {<<>>, <<0>>, <<1>>}
\* what a failed subscript yields in place of a latency (latencies are >= 0)
IndexError == -1

\* an HTTP response: the status code and the JSON body (or the error detail)
Response(status, body) == [status |-> status, body |-> body]

ApiOp(op, call_id, metric_type, backend_calls) ==
    [op |-> op, kind |-> metric_type, draw |-> 0, arg |-> call_id,
     backend_calls |-> backend_calls]

NotAvailable == Response(503, "Metrics collection not available")

\* startup_event: the value of the global metrics_collector after startup
startup_event(cfg) == IF cfg.enabled THEN "MetricsCollector" ELSE None

health_check ==
    /\ result' = Response(200, [status |-> "healthy",
                                metrics_enabled |-> metrics_collector # None])
    /\ lastOp' = ApiOp("health_check", None, None, 0)
    /\ UNCHANGED <<config, current_call_id, backend, calls, written, ext>>

\* faulty variant: the call id is not passed on to the collector
api_get_call_metrics_any_call(call_id) ==
    /\ IF metrics_collector = None
       THEN /\ result' = NotAvailable
            /\ lastOp' = ApiOp("api_get_call_metrics", call_id, None, 0)
       ELSE /\ result' = Response(200, collector_get_call_metrics(None, <<>>))
            /\ lastOp' = ApiOp("api_get_call_metrics", call_id, None, 4)
    /\ UNCHANGED <<config, current_call_id, backend, calls, written, ext>>

\* GET /metrics/calls/{call_id}
api_get_call_metrics(call_id) ==
    /\ IF metrics_collector = None
       THEN /\ result' = NotAvailable
            /\ lastOp' = ApiOp("api_get_call_metrics", call_id, None, 0)
       ELSE /\ result' = Response(200, collector_get_call_metrics(call_id, <<>>))
            /\ lastOp' = ApiOp("api_get_call_metrics", call_id, None, 4)
    /\ UNCHANGED <<config, current_call_id, backend, calls, written, ext>>

\* faulty variant: the collector is used without the check (None has no
\* get_call_summary, which the except branch turns into 500)
api_get_call_summary_unchecked(call_id, now) ==
    /\ IF metrics_collector = None
       THEN /\ result' = Response(500, "AttributeError")
            /\ lastOp' = ApiOp("api_get_call_summary", call_id, None, 0)
       ELSE /\ result' = Response(200, collector_get_call_summary(call_id, <<>>, now))
            /\ lastOp' = ApiOp("api_get_call_summary", call_id, None, 4)
    /\ UNCHANGED <<config, current_call_id, backend, calls, written, ext>>

\* GET /metrics/calls/{call_id}/summary
api_get_call_summary(call_id, now) ==
    /\ IF metrics_collector = None
       THEN /\ result' = NotAvailable
            /\ lastOp' = ApiOp("api_get_call_summary", call_id, None, 0)
       ELSE /\ result' = Response(200, collector_get_call_summary(call_id, <<>>, now))
            /\ lastOp' = ApiOp("api_get_call_summary", call_id, None, 4)
    /\ UNCHANGED <<config, current_call_id, backend, calls, written, ext>>

\* xs[:limit]
SliceTo(xs, limit) ==
    IF limit >= 0
    THEN SubSeq(xs, 1, IF limit < Len(xs) THEN limit ELSE Len(xs))
    ELSE SubSeq(xs, 1, Len(xs) + limit)

\* lastOp of GET /metrics/calls/{call_id}/{metric_type}?limit=
ByTypeOp(call_id, metric_type, limit, backend_calls) ==
    [op |-> "get_call_metrics_by_type", kind |-> metric_type, draw |-> 0,
     arg |-> call_id, backend_calls |-> backend_calls, limit |-> limit]

\* faulty variant: the metric type is validated after the backend was read
get_call_metrics_by_type_late_check(call_id, metric_type, limit) ==
    /\ IF metrics_collector = None
       THEN /\ result' = NotAvailable
            /\ lastOp' = ByTypeOp(call_id, metric_type, limit, 0)
       ELSE IF metric_type \notin {"llm", "tts", "asr", "eou"}
       THEN /\ result' = Response(400, "Invalid metric type")
            /\ lastOp' = ByTypeOp(call_id, metric_type, limit, 4)
       ELSE LET all_metrics == collector_get_call_metrics(call_id, <<>>)
                found == DictGetOr(all_metrics, metric_type, <<>>)
                limited == IF limit # <<>> /\ limit[1] # 0
                           THEN SliceTo(found, limit[1]) ELSE found
            IN  /\ result' = Response(200, [metrics |-> limited,
                                            count |-> Len(limited)])
                /\ lastOp' = ByTypeOp(call_id, metric_type, limit, 4)
    /\ UNCHANGED <<config, current_call_id, backend, calls, written, ext>>

\* GET /metrics/calls/{call_id}/{metric_type}?limit=
get_call_metrics_by_type(call_id, metric_type, limit) ==
    /\ IF metrics_collector = None
       THEN /\ result' = NotAvailable
            /\ lastOp' = ByTypeOp(call_id, metric_type, limit, 0)
       ELSE IF metric_type \notin {"llm", "tts", "asr", "eou"}
       THEN /\ result' = Response(400, "Invalid metric type")
            /\ lastOp' = ByTypeOp(call_id, metric_type, limit, 0)
       ELSE LET all_metrics == collector_get_call_metrics(call_id, <<>>)
                found == DictGetOr(all_metrics, metric_type, <<>>)
                limited == IF limit # <<>> /\ limit[1] # 0
                           THEN SliceTo(found, limit[1]) ELSE found
            IN  /\ result' = Response(200, [metrics |-> limited,
                                            count |-> Len(limited)])
                /\ lastOp' = ByTypeOp(call_id, metric_type, limit, 4)
    /\ UNCHANGED <<config, current_call_id, backend, calls, written, ext>>

\* sorted(xs)
RECURSIVE Insert(_, _)
Insert(x, s) ==
    IF s = <<>> THEN <<x>>
    ELSE IF x <= Head(s) THEN <<x>> \o s
    ELSE <<Head(s)>> \o Insert(x, Tail(s))

RECURSIVE Sorted(_)
Sorted(xs) == IF xs = <<>> THEN <<>> ELSE Insert(Head(xs), Sorted(Tail(xs)))

\* faulty variant: the rank is n, one past the last element
P95Index_ceiling(n) == n

\* int(n * 0.95): the double product truncated, which equals floor(95 n / 100)
\* for every n up to 2,000,000
P95Index(n) == (n * 95) \div 100

\* sorted(xs)[int(len(xs) * 0.95)] if len(xs) > 1 else xs[0]; a subscript
\* outside the list raises IndexError
P95(xs) ==
    IF Len(xs) > 1
    THEN LET i == P95Index(Len(xs))
         IN  IF i < Len(xs) THEN Sorted(xs)[i + 1] ELSE IndexError
    ELSE xs[1]

\* analytics[kind], built only when ms = metrics.get(kind, []) is non-empty
AnalyticsEntry(kind, ms) ==
    CASE kind = "llm" ->
            [count |-> Len(ms),
             avg_ttft |-> Avg(Column(ms, "ttft")),
             p95_ttft |-> P95(Column(ms, "ttft")),
             avg_total_time |-> Avg(Column(ms, "total_time")),
             total_input_tokens |-> Sum(Column(ms, "input_tokens")),
             total_output_tokens |-> Sum(Column(ms, "output_tokens"))]
      [] kind = "tts" ->
            [count |-> Len(ms),
             avg_ttfb |-> Avg(Column(ms, "ttfb")),
             p95_ttfb |-> P95(Column(ms, "ttfb")),
             total_audio_duration |-> Sum(Column(ms, "audio_duration"))]
      [] kind = "asr" ->
            [count |-> Len(ms),
             avg_processing_time |-> Avg(Column(ms, "processing_time")),
             p95_processing_time |-> P95(Column(ms, "processing_time"))]
      [] kind = "eou" ->
            [count |-> Len(ms),
             avg_delay |-> Avg(Column(ms, "eou_delay")),
             p95_delay |-> P95(Column(ms, "eou_delay"))]

\* the p95 member of analytics[kind]
P95Field(kind) ==
    CASE kind = "llm" -> "p95_ttft"
      [] kind = "tts" -> "p95_ttfb"
      [] kind = "asr" -> "p95_processing_time"
      [] kind = "eou" -> "p95_delay"

\* the records grouped by metric.get("metric_type"); other types are dropped
\* faulty variant: grouped_metrics[mtype] is assigned instead of appended to
GroupByType_assigned(ms) ==
    [k \in Kinds |->
        LET found == SelectSeq(ms, LAMBDA m : DictGet(m, "metric_type") = k)
        IN IF found = <<>> THEN <<>> ELSE <<found[Len(found)]>>]

GroupByType(ms) ==
    [k \in Kinds |-> SelectSeq(ms, LAMBDA m : DictGet(m, "metric_type") = k)]

\* GET /metrics/analytics/performance?call_id=&metric_type=; None when absent
get_performance_analytics(call_id, metric_type, keyOrder) ==
    /\ IF metrics_collector = None
       THEN /\ result' = NotAvailable
            /\ lastOp' = ApiOp("get_performance_analytics", call_id, metric_type, 0)
       ELSE LET grouped == IF Truthy(call_id)
                           THEN collector_get_call_metrics(call_id, keyOrder)
                           ELSE GroupByType(storage_get_metrics(keyOrder, None, None))
                keys == {k \in Kinds : /\ ~Truthy(metric_type) \/ metric_type = k
                                       /\ grouped[k] # <<>>}
                analytics == [k \in keys |-> AnalyticsEntry(k, grouped[k])]
            IN  /\ result' =
                     IF \E k \in keys : analytics[k][P95Field(k)] = IndexError
                     THEN Response(500, "list index out of range")
                     ELSE Response(200, analytics)
                /\ lastOp' = ApiOp("get_performance_analytics", call_id, metric_type,
                                   IF Truthy(call_id) THEN 4 ELSE 1)
    /\ UNCHANGED <<config, current_call_id, backend, calls, written, ext>>

\* the flag record_<kind>_metric consults
CollectFlag(cfg, kind) ==
    CASE kind = "llm" -> cfg.collect_llm_metrics
      [] kind = "tts" -> cfg.collect_tts_metrics
      [] kind = "asr" -> cfg.collect_asr_metrics
      [] kind = "eou" -> cfg.collect_eou_metrics

\* the dict the record_* call of create_test_metrics builds for a kind
TestMetric(kind, call_id, timestamp) ==
    CASE kind = "llm" ->
            LLMMetric(timestamp, call_id, 245, 50, 25, "gpt-4o", 1200,
                      TokensPerSecond(25, 1200))
      [] kind = "tts" ->
            TTSMetric(timestamp, call_id, 150, 2500, 25, "eleven_turbo_v2_5",
                      "Rachel")
      [] kind = "asr" ->
            ASRMetric(timestamp, call_id, 3000, 500, 50, "nova-2", "en")
      [] kind = "eou" -> EOUMetric(timestamp, call_id, 300, 95)

\* faulty variant: the record_eou_metric call is missing
TestStores_without_eou(cfg, draw, timestamp) ==
    LET passed == SelectSeq(<<"llm", "tts", "asr">>,
                            LAMBDA k : CollectFlag(cfg, k) /\ should_collect(cfg, draw[k]))
    IN  [i \in DOMAIN passed |->
            [metric_type |-> passed[i],
             metric |-> TestMetric(passed[i], CallIdOrUnknown(TestCallId), timestamp)]]

\* the store_metric calls the four record_* calls of create_test_metrics
\* make, in order; draw[kind] is the reading of random.random() in each
TestStores(cfg, draw, timestamp) ==
    LET passed == SelectSeq(<<"llm", "tts", "asr", "eou">>,
                            LAMBDA k : CollectFlag(cfg, k) /\ should_collect(cfg, draw[k]))
    IN  [i \in DOMAIN passed |->
            [metric_type |-> passed[i],
             metric |-> TestMetric(passed[i], CallIdOrUnknown(TestCallId), timestamp)]]

\* store_metric applied to each element of ws in turn
RECURSIVE MemoryStorage_store_each(_, _)
MemoryStorage_store_each(list, ws) ==
    IF ws = <<>> THEN list
    ELSE MemoryStorage_store_each(
             MemoryStorage_store_metric(list, Head(ws).metric_type, Head(ws).metric),
             Tail(ws))

RECURSIVE FileStorage_store_each(_, _)
FileStorage_store_each(lines, ws) ==
    IF ws = <<>> THEN lines
    ELSE FileStorage_store_each(
             FileStorage_store_metric(lines, Head(ws).metric_type, Head(ws).metric),
             Tail(ws))

RECURSIVE RedisStorage_store_each_lists(_, _)
RedisStorage_store_each_lists(lists, ws) ==
    IF ws = <<>> THEN lists
    ELSE RedisStorage_store_each_lists(
             RedisStorage_store_metric_lists(lists, Head(ws).metric_type, Head(ws).metric),
             Tail(ws))

RECURSIVE RedisStorage_store_each_ttl(_, _)
RedisStorage_store_each_ttl(ttl, ws) ==
    IF ws = <<>> THEN ttl
    ELSE RedisStorage_store_each_ttl(
             RedisStorage_store_metric_ttl(ttl, Head(ws).metric_type, Head(ws).metric),
             Tail(ws))

\* await self.storage.store_metric(...) for each element of ws in turn
storage_store_each(ws) ==
    /\ written' = written \o ws
    /\ CASE create_storage(config) = "memory" ->
              /\ metrics' = MemoryStorage_store_each(metrics, ws)
              /\ UNCHANGED <<file_exists, file_lines, redis_lists, redis_ttl>>
         [] create_storage(config) = "file" ->
              /\ file_exists' = (file_exists \/ ws # <<>>)
              /\ file_lines' = FileStorage_store_each(file_lines, ws)
              /\ UNCHANGED <<metrics, redis_lists, redis_ttl>>
         [] create_storage(config) = "redis" ->
              /\ redis_lists' = RedisStorage_store_each_lists(redis_lists, ws)
              /\ redis_ttl' = RedisStorage_store_each_ttl(redis_ttl, ws)
              /\ UNCHANGED <<metrics, file_exists, file_lines>>

\* POST /metrics/test: set_call_id and the four awaited record_* calls
create_test_metrics(draw, timestamp) ==
    /\ IF metrics_collector = None
       THEN /\ result' = NotAvailable
            /\ lastOp' = ApiOp("create_test_metrics", None, None, 0)
            /\ UNCHANGED <<current_call_id, backend, calls, written>>
       ELSE LET ws == TestStores(config, draw, timestamp)
            IN  /\ calls["llm"] < MaxPosts
                /\ current_call_id' = TestCallId
                /\ calls' = [k \in Kinds |-> calls[k] + 1]
                /\ storage_store_each(ws)
                /\ result' = Response(200, [message |-> "Test metrics created",
                                            call_id |-> TestCallId])
                /\ lastOp' = ApiOp("create_test_metrics", None, None, Len(ws))
    /\ UNCHANGED <<config, ext>>

\* the readings of random.random() explored for the four record_* calls:
\* all below 0.5, all above, and only that of record_tts_metric above
TestDraws ==
    {[k \in Kinds |-> 0], [k \in Kinds |-> 99],
     [k \in Kinds |-> IF k = "tts" THEN 99 ELSE 0]}

DoCreateTestMetrics ==
    \E draw \in TestDraws, ts \in Timestamps : create_test_metrics(draw, ts)

\* the environments explored: a sampling rate of 0.5 or 1.0, and every kind
\* collected or the tts flag off
ApiConfigs ==
    {cfg \in Configs : /\ cfg.sample_rate # 0
                       /\ cfg.collect_llm_metrics
                       /\ cfg.collect_asr_metrics
                       /\ cfg.collect_eou_metrics}

InitApi ==
    /\ config \in ApiConfigs
    /\ metrics_collector = startup_event(config)
    /\ current_call_id = None
    /\ EmptyBackend
    /\ file_exists = FALSE
    /\ calls = [k \in Kinds |-> 0]
    /\ written = <<>>
    /\ lastOp = ApiOp("startup_event", None, None, 0)
    /\ result = None
    /\ store_pc = NoStore
    /\ component = NoComponent
    /\ tasks = <<>>
    /\ stream = NoStream
    /\ query_pc = NoQuery
    /\ service = NoService
    /\ llm = None

DoApiGetCallMetrics == \E c \in ApiCallIds : api_get_call_metrics(c)

DoApiGetCallSummary ==
    \E c \in ApiCallIds, now \in Timestamps : api_get_call_summary(c, now)

DoGetCallMetricsByType ==
    \E c \in ApiCallIds, t \in RouteMetricTypes :
        \E limit \in (IF t \in Kinds THEN Limits ELSE {<<>>}) :
            get_call_metrics_by_type(c, t, limit)

\* redis.keys is called only when no call id is given
DoGetPerformanceAnalytics ==
    \E c \in ApiCallIds \cup {None}, t \in RouteMetricTypes \cup {None} :
        \E keyOrder \in (IF Truthy(c) THEN {<<>>}
                          ELSE Orders(ExistingKeys(redis_lists))) :
            get_performance_analytics(c, t, keyOrder)

NextApi ==
    \/ health_check
    \/ DoApiGetCallMetrics
    \/ DoApiGetCallSummary
    \/ DoGetCallMetricsByType
    \/ DoGetPerformanceAnalytics
    \/ DoCreateTestMetrics

SpecApi == InitApi /\ [][NextApi]_vars

(***************************************************************************)
(* SpecFaults: a collector on a file or key-value backend whose calls may  *)
(* fail.  RedisStorage.store_metric is taken one await at a time: lpush,   *)
(* then expire; between the two the record_* coroutine is suspended and    *)
(* other callers run.  One store_metric is in flight at a time.            *)
(***************************************************************************)
\* what a caller of record_* observes: the call returned (None), it raised,
\* or it has not ended yet
Raised == "<raised>"
Suspended == "<suspended>"

FaultConfigs == {cfg \in Configs : cfg.enabled /\ cfg.storage_type # "memory"}

\* record_<kind>_metric up to the end of the first backend call; ok tells
\* whether that call (open/write, or lpush) succeeds.  Nothing in record_*
\* or store_metric catches what the backend raises.
record_metric(kind, timestamp, draw, ok) ==
    /\ store_pc.at = "idle"
    /\ RecordGuard
    /\ calls' = [calls EXCEPT ![kind] = @ + 1]
    /\ IF ~CollectFlag(config, kind) \/ ~should_collect(config, draw)
       THEN /\ result' = None
            /\ lastOp' = RecordOp(kind, draw, FALSE)
            /\ UNCHANGED <<backend, written, store_pc>>
       ELSE LET metric == TestMetric(kind, CallIdOrUnknown(current_call_id), timestamp)
                key == RedisKey(DictGetOr(metric, "call_id", "unknown"))
            IN  /\ lastOp' = RecordOp(kind, draw, TRUE)
                /\ IF ~ok
                   THEN /\ result' = Raised
                        /\ UNCHANGED <<backend, written, store_pc>>
                   ELSE /\ written' = Append(written, [metric_type |-> kind, metric |-> metric])
                        /\ IF create_storage(config) = "redis"
                           THEN /\ redis_lists' = RedisStorage_store_metric_lists(redis_lists, kind, metric)
                                /\ store_pc' = [at |-> "expire", key |-> key, kind |-> kind, draw |-> draw]
                                /\ result' = Suspended
                                /\ UNCHANGED <<metrics, file_exists, file_lines, redis_ttl>>
                           ELSE /\ file_exists' = TRUE
                                /\ file_lines' = FileStorage_store_metric(file_lines, kind, metric)
                                /\ result' = None
                                /\ UNCHANGED <<metrics, redis_lists, redis_ttl, store_pc>>
    /\ UNCHANGED <<config, current_call_id, metrics_collector, wrap, service,
                   query_pc>>

\* the rest of RedisStorage.store_metric: await redis.expire(key, 3600 * 24),
\* after which record_* returns; ok tells whether expire succeeds
RedisStorage_store_metric_expire(ok) ==
    /\ store_pc.at = "expire"
    /\ store_pc' = NoStore
    /\ lastOp' = RecordOp(store_pc.kind, store_pc.draw, TRUE)
    /\ IF ok
       THEN /\ redis_ttl' = Expire(redis_ttl, store_pc.key, RedisExpire)
            /\ result' = None
       ELSE /\ result' = Raised
            /\ UNCHANGED redis_ttl
    /\ UNCHANGED <<config, current_call_id, metrics, file_exists, file_lines,
                   redis_lists, calls, written, metrics_collector, wrap, service,
                   query_pc>>

InitFaults ==
    /\ config \in FaultConfigs
    /\ current_call_id = None
    /\ EmptyBackend
    /\ file_exists = FALSE
    /\ calls = [k \in Kinds |-> 0]
    /\ written = <<>>
    /\ lastOp = [op |-> "init", kind |-> None, draw |-> 0, arg |-> None,
                 backend_calls |-> 0]
    /\ result = None
    /\ metrics_collector = None
    /\ store_pc = NoStore
    /\ component = NoComponent
    /\ tasks = <<>>
    /\ stream = NoStream
    /\ query_pc = NoQuery
    /\ service = NoService
    /\ llm = None

DoRecordMetric ==
    \E kind \in Kinds, ts \in Timestamps, draw \in Draws, ok \in BOOLEAN :
        record_metric(kind, ts, draw, ok)

DoExpire == \E ok \in BOOLEAN : RedisStorage_store_metric_expire(ok)

NextFaults == DoSetCallId \/ DoRecordMetric \/ DoExpire \/ DoGetCallMetrics

SpecFaults == InitFaults /\ [][NextFaults]_vars

(***************************************************************************)
(* SpecPercentile: the analytics of a service whose in-memory backend      *)
(* holds up to MaxRecords records of one kind, with any primary latencies  *)
(***************************************************************************)
LatencyVals == 1..5

\* the field the average and the p95 of a kind are computed from
PrimaryField(kind) ==
    CASE kind = "llm" -> "ttft"
      [] kind = "tts" -> "ttfb"
      [] kind = "asr" -> "processing_time"
      [] kind = "eou" -> "eou_delay"

\* a stored record of the kind whose primary latency is the given one
StoredSample(kind, latency) ==
    LET m == TestMetric(kind, "A", 100)
    IN  SetMetricType([m EXCEPT ![PrimaryField(kind)] = latency], kind)

FullConfig ==
    [enabled |-> TRUE, storage_type |-> "memory",
     collect_llm_metrics |-> TRUE, collect_tts_metrics |-> TRUE,
     collect_asr_metrics |-> TRUE, collect_eou_metrics |-> TRUE,
     sample_rate |-> 100]

InitPercentile ==
    /\ config = FullConfig
    /\ metrics_collector = startup_event(config)
    /\ current_call_id = None
    /\ \E kind \in Kinds, n \in 0..MaxRecords :
          \E xs \in [1..n -> LatencyVals] :
              metrics = [i \in 1..n |-> StoredSample(kind, xs[i])]
    /\ file_exists = FALSE
    /\ file_lines = <<>>
    /\ redis_lists = [k \in RedisKeys |-> <<>>]
    /\ redis_ttl = [k \in RedisKeys |-> NoExpiry]
    /\ calls = [k \in Kinds |-> 0]
    /\ written = <<>>
    /\ lastOp = ApiOp("startup_event", None, None, 0)
    /\ result = None
    /\ store_pc = NoStore
    /\ component = NoComponent
    /\ tasks = <<>>
    /\ stream = NoStream
    /\ query_pc = NoQuery
    /\ service = NoService
    /\ llm = None

\* GET /metrics/analytics/performance, with and without the call_id filter
DoAnalyticsOfStored ==
    \E c \in {"A", None} : get_performance_analytics(c, None, <<>>)

NextPercentile == DoAnalyticsOfStored

SpecPercentile == InitPercentile /\ [][NextPercentile]_vars

(***************************************************************************)
(* SpecWrapper: a language-model client wrapped by MetricsLLMWrapper with  *)
(* a collector.  llm describes the client's generation method (its kind,   *)
(* what it returns or yields for the arguments used, and whether the       *)
(* calling thread has a running event loop); a caller calls the method the *)
(* way its kind requires and result is what the caller observes: the       *)
(* outcome, the shape of the value obtained (a plain value, an iterator,   *)
(* an async iterator) and its items.                                       *)
(***************************************************************************)
MethodKinds ==
    {"sync_function", "coroutine_function", "sync_generator", "async_generator"}
Chunks == {"a", "b"}

\* all sequences over S of length lo..hi
SeqsOf(S, lo, hi) == UNION {[1..n -> S] : n \in lo..hi}

Observation(outcome, shape, items) ==
    [outcome |-> outcome, shape |-> shape, items |-> items]

\* what the caller obtains from the original method: the value returned by a
\* function, the value awaited from a coroutine function, the chunks iterated
\* from a generator
call_original(method, output) ==
    CASE method = "sync_function" -> Observation("returned", "value", output)
      [] method = "coroutine_function" -> Observation("returned", "value", output)
      [] method = "sync_generator" -> Observation("returned", "iterator", output)
      [] method = "async_generator" -> Observation("returned", "async_iterator", output)

\* asyncio.iscoroutinefunction: true of async def functions without yield
iscoroutinefunction(method) == method = "coroutine_function"

\* the chunks the async generator _generate_with_metrics yields
generate_with_metrics(method, output) ==
    IF iscoroutinefunction(method)
    THEN \* the coroutine object has no __aiter__: it is awaited and its
         \* value yielded as the only chunk
         <<output[1]>>
    ELSE IF method = "sync_function"
         THEN <<output[1]>>
         ELSE output

\* _generate_with_metrics_sync: the original's result is returned as it is,
\* after asyncio.create_task, which raises RuntimeError without a running loop
generate_with_metrics_sync(method, output, loop) ==
    IF ~loop
    THEN Observation("raised", "RuntimeError", <<>>)
    ELSE call_original(method, output)

\* the method _create_wrapped_method installs, called as the original is
wrapped_method(method, output, loop) ==
    IF iscoroutinefunction(method)
    THEN \* async def wrapped_method returns the async generator object
         Observation("returned", "async_iterator", generate_with_metrics(method, output))
    ELSE generate_with_metrics_sync(method, output, loop)

CallOriginal ==
    /\ result' = call_original(llm.method, llm.output)
    /\ lastOp' = ApiOp("call_original", None, llm.method, 0)
    /\ UNCHANGED <<config, current_call_id, backend, calls, written, ext>>

CallWrapped ==
    /\ result' = wrapped_method(llm.method, llm.output, llm.loop)
    /\ lastOp' = ApiOp("call_wrapped", None, llm.method, 0)
    /\ UNCHANGED <<config, current_call_id, backend, calls, written, ext>>

\* a coroutine function and an async generator run under an event loop
InitWrapper ==
    /\ \E method \in MethodKinds, loop \in BOOLEAN :
          \E output \in (IF method \in {"sync_function", "coroutine_function"}
                          THEN SeqsOf(Chunks, 1, 1)
                          ELSE SeqsOf(Chunks, 0, MaxChunks)) :
              /\ method \in {"coroutine_function", "async_generator"} => loop
              /\ llm = [method |-> method, output |-> output, loop |-> loop]
    /\ config = FullConfig
    /\ metrics_collector = None
    /\ current_call_id = None
    /\ EmptyBackend
    /\ file_exists = FALSE
    /\ calls = [k \in Kinds |-> 0]
    /\ written = <<>>
    /\ lastOp = ApiOp("wrap_with_metrics", None, None, 0)
    /\ result = None
    /\ store_pc = NoStore
    /\ component = NoComponent
    /\ tasks = <<>>
    /\ stream = NoStream
    /\ query_pc = NoQuery
    /\ service = NoService

NextWrapper == CallOriginal \/ CallWrapped

SpecWrapper == InitWrapper /\ [][NextWrapper]_vars

(***************************************************************************)
(* SpecWrap: wrap_with_metrics applied to a client object.  component      *)
(* lists the public attributes the object has, whether setattr on it       *)
(* succeeds, and the attributes that have been replaced; result tells      *)
(* which object the factory returned.                                      *)
(***************************************************************************)
possible_methods == <<"agenerate", "generate", "chat", "achat", "stream", "astream">>
AttributeNames == {possible_methods[i] : i \in DOMAIN possible_methods} \cup {"model"}
ComponentTypes == {"llm", "tts", "stt", "vad"}

\* the loop over possible_methods: the first name the object has, or None
generation_method(methods) ==
    LET found == {i \in DOMAIN possible_methods : possible_methods[i] \in methods}
    IN IF found = {} THEN None
       ELSE possible_methods[CHOOSE i \in found : \A j \in found : i <= j]

Returned(object, replaced) == [returned |-> object, replaced |-> replaced]

\* MetricsLLMWrapper(llm, metrics_collector): the attribute setattr replaces
\* (None when nothing is replaced) and whether the constructor raises
MetricsLLMWrapper_init(c, collector) ==
    LET name == generation_method(c.methods)
    IN IF name # None /\ collector
       THEN [raises |-> ~c.writable, replaced |-> name]
       ELSE [raises |-> FALSE, replaced |-> None]

wrap_with_metrics(component_type, collector) ==
    /\ lastOp' = ApiOp("wrap_with_metrics",
                       IF collector THEN "MetricsCollector" ELSE None,
                       component_type, 0)
    /\ IF ~collector \/ component_type # "llm"
       THEN /\ result' = Returned("component", None)
            /\ UNCHANGED component
       ELSE LET w == MetricsLLMWrapper_init(component, collector)
            IN IF w.raises
               THEN /\ result' = Returned("component", None)
                    /\ UNCHANGED component
               ELSE /\ result' = Returned("MetricsLLMWrapper", w.replaced)
                    /\ component' =
                          [component EXCEPT !.replaced =
                              IF w.replaced = None THEN @ ELSE @ \cup {w.replaced}]
    /\ UNCHANGED <<config, current_call_id, backend, calls, written,
                   metrics_collector, store_pc, llm, tasks, stream, service,
                   query_pc>>

DoWrapWithMetrics ==
    \E t \in ComponentTypes, collector \in BOOLEAN : wrap_with_metrics(t, collector)

InitWrap ==
    /\ \E methods \in SUBSET AttributeNames, writable \in BOOLEAN :
          component = [methods |-> methods, writable |-> writable, replaced |-> {}]
    /\ config = FullConfig
    /\ metrics_collector = None
    /\ current_call_id = None
    /\ EmptyBackend
    /\ file_exists = FALSE
    /\ calls = [k \in Kinds |-> 0]
    /\ written = <<>>
    /\ lastOp = ApiOp("init", None, None, 0)
    /\ result = None
    /\ store_pc = NoStore
    /\ llm = None
    /\ tasks = <<>>
    /\ stream = NoStream
    /\ query_pc = NoQuery
    /\ service = NoService

NextWrap == DoWrapWithMetrics

SpecWrap == InitWrap /\ [][NextWrap]_vars

(***************************************************************************)
(* SpecTasks: calls of the generation method MetricsLLMWrapper installed,  *)
(* step by step.  The caller calls the method, then pulls the items of     *)
(* what it was given one at a time; stream holds the position of that call *)
(* and the clock (now), tasks the record_llm_metric coroutines handed to   *)
(* asyncio.create_task and not yet run.  The event loop runs a task as one *)
(* step: with the in-memory and the file backend nothing in                *)
(* record_llm_metric suspends.  set_call_id may run between any two steps. *)
(***************************************************************************)
TaskCallIds == {"A", "B"}
Delays == {1}
Prompt == <<"hello", "world">>

\* int(len(text.split()) * 1.3)
EstimateTokens(words) == (words * 13) \div 10

\* the chunks a streaming method yields: a, b, a, ...
StreamOutputs ==
    {[i \in 1..n |-> IF i % 2 = 1 THEN "a" ELSE "b"] : n \in 0..MaxChunks}

\* the arguments of one record_llm_metric call, with the call id that was
\* current and the number of chunks already yielded when it was scheduled
Task(ttft, input_tokens, output_tokens, total_time) ==
    [ttft |-> ttft, input_tokens |-> input_tokens,
     output_tokens |-> output_tokens, total_time |-> total_time,
     scheduled_under |-> current_call_id, yielded_before |-> stream.yielded,
     call |-> stream.made]

\* the caller calls the wrapped entry point; delay is the time the original
\* method takes to return
call_wrapped_method(delay) ==
    /\ stream.pc \in {"idle", "done", "raised"}
    /\ stream.made < MaxTasks
    /\ result' = wrapped_method(llm.method, llm.output, llm.loop)
    /\ lastOp' = ApiOp("call_wrapped", None, llm.method, 0)
    /\ IF iscoroutinefunction(llm.method)
       THEN \* async def wrapped_method: the async generator object of
            \* _generate_with_metrics is returned, none of its code has run
            /\ stream' = [NoStream EXCEPT !.pc = "agen", !.now = stream.now,
                                          !.made = stream.made + 1]
            /\ UNCHANGED tasks
       ELSE \* _generate_with_metrics_sync
            LET start_time == stream.now
                now == stream.now + delay
                total_time == now - start_time
                output_tokens == IF llm.method = "sync_function"
                                 THEN EstimateTokens(1) ELSE 0
                task == Task(total_time, EstimateTokens(Len(Prompt)),
                             output_tokens, total_time)
                called == [NoStream EXCEPT !.now = now, !.start = start_time,
                                           !.made = stream.made + 1]
            IN IF ~llm.loop
               THEN /\ stream' = [called EXCEPT !.pc = "raised"]
                    /\ UNCHANGED tasks
               ELSE /\ tasks' = Append(tasks, task)
                    /\ stream' = IF llm.method = "sync_function"
                                 THEN [called EXCEPT !.pc = "done",
                                                     !.scheduled = <<task>>]
                                 ELSE [called EXCEPT !.pc = "iterating",
                                                     !.remaining = llm.output,
                                                     !.scheduled = <<task>>]
    /\ UNCHANGED <<config, current_call_id, backend, calls, written,
                   metrics_collector, store_pc, llm, component, service,
                   query_pc>>

\* the caller asks what it was given for its next item; delay is the time
\* the original takes to produce it (or to finish)
next_chunk(delay) ==
    /\ stream.pc \in {"iterating", "agen", "agen_yielded"}
    /\ lastOp' = ApiOp("next_chunk", None, llm.method, 0)
    /\ CASE stream.pc = "iterating" ->
              \* the original's own iterator: the wrapper is not involved
              LET now == stream.now + delay
              IN /\ UNCHANGED tasks
                 /\ IF stream.remaining = <<>>
                    THEN /\ result' = "StopIteration"
                         /\ stream' = [stream EXCEPT !.pc = "done", !.now = now,
                                                     !.end_at = now - stream.start]
                    ELSE /\ result' = Head(stream.remaining)
                         /\ stream' =
                              [stream EXCEPT
                                 !.now = now,
                                 !.remaining = Tail(@),
                                 !.yielded = @ + 1,
                                 !.first_at = IF stream.yielded = 0
                                              THEN now - stream.start ELSE @]
         [] stream.pc = "agen" ->
              \* _generate_with_metrics up to its yield: the coroutine is
              \* awaited, the task created, the value yielded
              LET start_time == stream.now
                  now == stream.now + delay
                  total_time == now - start_time
                  task == Task(total_time, EstimateTokens(Len(Prompt)),
                               EstimateTokens(1), total_time)
              IN /\ tasks' = Append(tasks, task)
                 /\ result' = llm.output[1]
                 /\ stream' = [stream EXCEPT !.pc = "agen_yielded", !.now = now,
                                             !.start = start_time,
                                             !.yielded = 1,
                                             !.scheduled = Append(@, task),
                                             !.first_at = total_time]
         [] stream.pc = "agen_yielded" ->
              /\ UNCHANGED tasks
              /\ result' = "StopAsyncIteration"
              /\ stream' = [stream EXCEPT !.pc = "done",
                                          !.end_at = stream.now - stream.start]
    /\ UNCHANGED <<config, current_call_id, backend, calls, written,
                   metrics_collector, store_pc, llm, component, service,
                   query_pc>>

\* all of s but its i-th element
RemoveAt(s, i) == SubSeq(s, 1, i - 1) \o SubSeq(s, i + 1, Len(s))

\* faulty variant: the coroutine store_metric returns is never awaited
run_task_unawaited(i, draw) ==
    /\ tasks' = RemoveAt(tasks, i)
    /\ calls' = [calls EXCEPT !["llm"] = @ + 1]
    /\ result' = None
    /\ lastOp' = [op |-> "record", kind |-> "llm", draw |-> draw,
                  arg |-> tasks[i].scheduled_under, backend_calls |-> 0,
                  task |-> tasks[i].call]
    /\ UNCHANGED <<backend, written, config, current_call_id, metrics_collector,
                   store_pc, llm, component, stream, service, query_pc>>

\* the event loop runs the i-th task: record_llm_metric(ttft, input_tokens,
\* output_tokens, model, total_time) with the clock as time.time()
run_task(i, draw) ==
    LET t == tasks[i]
    IN /\ tasks' = RemoveAt(tasks, i)
       /\ calls' = [calls EXCEPT !["llm"] = @ + 1]
       /\ result' = None
       /\ IF ~config.collect_llm_metrics \/ ~should_collect(config, draw)
          THEN /\ lastOp' = [op |-> "record", kind |-> "llm", draw |-> draw,
                             arg |-> t.scheduled_under, backend_calls |-> 0,
                             task |-> t.call]
               /\ UNCHANGED <<backend, written>>
          ELSE LET metric == LLMMetric(stream.now, CallIdOrUnknown(current_call_id),
                                       t.ttft, t.input_tokens, t.output_tokens,
                                       "gpt-4o", t.total_time,
                                       TokensPerSecond(t.output_tokens, t.total_time))
               IN /\ storage_store_metric("llm", metric)
                  /\ lastOp' = [op |-> "record", kind |-> "llm", draw |-> draw,
                                arg |-> t.scheduled_under, backend_calls |-> 1,
                                task |-> t.call]
       /\ UNCHANGED <<config, current_call_id, metrics_collector, store_pc,
                      llm, component, stream, service, query_pc>>

TaskConfigs ==
    {cfg \in Configs : /\ cfg.enabled
                       /\ cfg.storage_type \in {"memory", "file"}
                       /\ cfg.sample_rate # 0
                       /\ cfg.collect_llm_metrics /\ cfg.collect_tts_metrics
                       /\ cfg.collect_asr_metrics /\ cfg.collect_eou_metrics}

InitTasks ==
    /\ config \in TaskConfigs
    /\ \E method \in MethodKinds, loop \in BOOLEAN :
          \E output \in (IF method \in {"sync_function", "coroutine_function"}
                          THEN {<<"a">>} ELSE StreamOutputs) :
              /\ method \in {"coroutine_function", "async_generator"} => loop
              /\ llm = [method |-> method, output |-> output, loop |-> loop]
    /\ metrics_collector = None
    /\ current_call_id = None
    /\ EmptyBackend
    /\ file_exists = FALSE
    /\ calls = [k \in Kinds |-> 0]
    /\ written = <<>>
    /\ lastOp = ApiOp("wrap_with_metrics", None, None, 0)
    /\ result = None
    /\ store_pc = NoStore
    /\ component = NoComponent
    /\ tasks = <<>>
    /\ stream = NoStream
    /\ query_pc = NoQuery
    /\ service = NoService

DoTaskSetCallId == \E c \in TaskCallIds : set_call_id(c)
DoCallWrappedMethod == \E delay \in Delays : call_wrapped_method(delay)
DoNextChunk == \E delay \in Delays : next_chunk(delay)
DoRunTask == \E i \in DOMAIN tasks, draw \in Draws : run_task(i, draw)

NextTasks == DoTaskSetCallId \/ DoCallWrappedMethod \/ DoNextChunk \/ DoRunTask

SpecTasks == InitTasks /\ [][NextTasks]_vars

(***************************************************************************)
(* SpecConcurrent: several record_llm_metric tasks, created by calls of a  *)
(* wrapped single-shot method under a running event loop, pending at once  *)
(* and run by the event loop in any order against the one backend.         *)
(***************************************************************************)
InitConcurrent ==
    /\ InitTasks
    /\ llm.method = "sync_function"
    /\ llm.loop

NextConcurrent == DoTaskSetCallId \/ DoCallWrappedMethod \/ DoRunTask

SpecConcurrent == InitConcurrent /\ [][NextConcurrent]_vars

(***************************************************************************)
(* SpecAnalytics: a collector recording under several call ids, every kind *)
(* collected and every call sampled, and GET /metrics/analytics/performance *)
(* served from the same backend.                                           *)
(***************************************************************************)
AnalyticsConfigs == {[FullConfig EXCEPT !.storage_type = t] : t \in StorageTypes}

InitAnalytics ==
    /\ config \in AnalyticsConfigs
    /\ metrics_collector = startup_event(config)
    /\ current_call_id = None
    /\ EmptyBackend
    /\ file_exists = FALSE
    /\ calls = [k \in Kinds |-> 0]
    /\ written = <<>>
    /\ lastOp = ApiOp("startup_event", None, None, 0)
    /\ result = None
    /\ store_pc = NoStore
    /\ component = NoComponent
    /\ llm = None
    /\ tasks = <<>>
    /\ stream = NoStream
    /\ query_pc = NoQuery
    /\ service = NoService

\* the metric_type filters explored
AnalyticsFilters == {None, "llm", "eou"}

\* redis.keys is called only when no call id is given
DoAnalytics ==
    \E c \in CallIds \cup {"unknown", None}, t \in AnalyticsFilters :
        \E keyOrder \in (IF Truthy(c) THEN {<<>>}
                          ELSE Orders(ExistingKeys(redis_lists))) :
            get_performance_analytics(c, t, keyOrder)

NextAnalytics ==
    \/ DoSetCallId
    \/ DoRecordLLM
    \/ DoRecordTTS
    \/ DoRecordASR
    \/ DoRecordEOU
    \/ DoAnalytics

SpecAnalytics == InitAnalytics /\ [][NextAnalytics]_vars

(***************************************************************************)
(* SpecQueries: the Query Service of SpecApi, whose collector is also      *)
(* queried directly (get_call_metrics, get_call_summary).                  *)
(***************************************************************************)
DoCollectorGetCallMetrics == metrics_collector # None /\ DoGetCallMetrics

DoCollectorGetCallSummary == metrics_collector # None /\ DoGetCallSummary

NextQueries ==
    \/ health_check
    \/ DoApiGetCallMetrics
    \/ DoApiGetCallSummary
    \/ DoGetCallMetricsByType
    \/ DoGetPerformanceAnalytics
    \/ DoCreateTestMetrics
    \/ DoCollectorGetCallMetrics
    \/ DoCollectorGetCallSummary

SpecQueries == InitApi /\ [][NextQueries]_vars

(***************************************************************************)
(* SpecRace: get_call_summary on the key-value backend, where each of the  *)
(* four awaited storage.get_metrics calls of get_call_metrics suspends the *)
(* coroutine on network I/O, so that set_call_id and record_llm_metric may *)
(* run while it is suspended.  query_pc holds the call id the summary was  *)
(* asked for (arg), the one the reads use (cid) and the lists read so far. *)
(***************************************************************************)
RaceCallIds == {"A", TestCallId}
ReadOrder == <<"llm", "tts", "asr", "eou">>

\* the summary get_call_summary builds from the mapping m it was returned
BuildSummary(call_id, m, now) ==
    LET keys == {"call_id", "timestamp", "counts"} \cup {k \in Kinds : m[k] # <<>>}
    IN  [f \in keys |->
            CASE f = "call_id" -> IF Truthy(call_id) THEN call_id ELSE current_call_id
              [] f = "timestamp" -> now
              [] f = "counts" -> SummaryCounts(m)
              [] OTHER -> SummaryEntry(f, m[f])]

\* get_call_summary(call_id) up to the first await of get_call_metrics
summary_begin(call_id) ==
    /\ query_pc.at = "idle"
    /\ query_pc' = [at |-> "reading", arg |-> call_id,
                    cid |-> IF Truthy(call_id) THEN call_id ELSE current_call_id,
                    got |-> <<>>]
    /\ lastOp' = [op |-> "get_call_summary_begin", kind |-> None, draw |-> 0,
                  arg |-> call_id, backend_calls |-> 0]
    /\ result' = Suspended
    /\ UNCHANGED <<config, current_call_id, backend, calls, written,
                   metrics_collector, store_pc, wrap, service>>

\* the pending storage.get_metrics completes and the coroutine runs on to
\* its next await; after the fourth read, to the return of the summary
summary_read(keyOrder, now) ==
    /\ query_pc.at = "reading"
    /\ LET kind == ReadOrder[Len(query_pc.got) + 1]
           got == Append(query_pc.got,
                         storage_get_metrics(keyOrder, query_pc.cid, kind))
       IN IF Len(got) < Len(ReadOrder)
          THEN /\ query_pc' = [query_pc EXCEPT !.got = got]
               /\ lastOp' = [op |-> "get_call_summary_read", kind |-> kind,
                             draw |-> 0, arg |-> query_pc.cid,
                             backend_calls |-> Len(got)]
               /\ result' = Suspended
          ELSE /\ query_pc' = NoQuery
               /\ lastOp' = [op |-> "get_call_summary", kind |-> None, draw |-> 0,
                             arg |-> query_pc.cid, backend_calls |-> Len(got)]
               /\ result' = BuildSummary(query_pc.arg,
                                         [llm |-> got[1], tts |-> got[2],
                                          asr |-> got[3], eou |-> got[4]],
                                         now)
    /\ UNCHANGED <<config, current_call_id, backend, calls, written,
                   metrics_collector, store_pc, wrap, service>>

InitRace ==
    /\ config = [FullConfig EXCEPT !.storage_type = "redis"]
    /\ metrics_collector = None
    /\ current_call_id = None
    /\ EmptyBackend
    /\ file_exists = FALSE
    /\ calls = [k \in Kinds |-> 0]
    /\ written = <<>>
    /\ lastOp = [op |-> "init", kind |-> None, draw |-> 0, arg |-> None,
                 backend_calls |-> 0]
    /\ result = None
    /\ store_pc = NoStore
    /\ component = NoComponent
    /\ llm = None
    /\ tasks = <<>>
    /\ stream = NoStream
    /\ service = NoService
    /\ query_pc = NoQuery

DoRaceSetCallId == \E c \in RaceCallIds : set_call_id(c)

DoSummaryBegin == \E c \in RaceCallIds \cup {None} : summary_begin(c)

\* redis.keys is called only when the reads use no call id
DoSummaryRead ==
    /\ query_pc.at = "reading"
    /\ \E now \in Timestamps :
          \E keyOrder \in (IF Truthy(query_pc.cid) THEN {<<>>}
                            ELSE Orders(ExistingKeys(redis_lists))) :
              summary_read(keyOrder, now)

NextRace == DoRaceSetCallId \/ DoRecordLLM \/ DoSummaryBegin \/ DoSummaryRead

SpecRace == InitRace /\ [][NextRace]_vars

(***************************************************************************)
(* SpecStartup: the Query Service process from its start.  service.env is  *)
(* the environment it was started in; startup_event runs once, after which *)
(* the application serves requests.                                        *)
(***************************************************************************)
EnabledSettings == {None, "true", "True", "false"}
StorageSettings == {None, "file", "redis", "sqlite"}
PortSettings == {None, "6380", "port"}
RateSettings == {None, "0.5", "1.0", "high"}

\* os.getenv(name, default)
Getenv(env, name, default) == IF env[name] = None THEN default ELSE env[name]

\* str.lower, on the settings explored
Lower(text) == IF text = "True" THEN "true" ELSE text

\* int(text) and float(text): whether the text parses, and the value (the
\* rate as a percentage)
ParsesAsInt(text) == text \in {"6379", "6380"}
ParsesAsFloat(text) == text \in {"0.5", "1.0"}
Float(text) == IF text = "1.0" THEN 100 ELSE 50

\* MetricsConfig.from_env: the configuration built, or ValueError raised by
\* int() or float()
from_env(env) ==
    LET redis_port == Getenv(env, "METRICS_REDIS_PORT", "6379")
        sample_rate == Getenv(env, "METRICS_SAMPLE_RATE", "1.0")
    IN IF ~ParsesAsInt(redis_port) \/ ~ParsesAsFloat(sample_rate)
       THEN [raises |-> TRUE, config |-> DefaultConfig]
       ELSE [raises |-> FALSE,
             config |->
               [enabled |-> Lower(Getenv(env, "METRICS_ENABLED", "true")) = "true",
                storage_type |-> Getenv(env, "METRICS_STORAGE_TYPE", "memory"),
                collect_llm_metrics |-> TRUE, collect_tts_metrics |-> TRUE,
                collect_asr_metrics |-> TRUE, collect_eou_metrics |-> TRUE,
                sample_rate |-> Float(sample_rate)]]

\* startup_event, run by the application before it accepts requests: an
\* exception of from_env is caught and printed
startup ==
    /\ service.state = "starting"
    /\ LET made == from_env(service.env)
       IN IF made.raises
          THEN /\ metrics_collector' = None
               /\ UNCHANGED config
          ELSE /\ metrics_collector' = startup_event(made.config)
               /\ config' = IF made.config.enabled THEN made.config ELSE config
    /\ service' = [service EXCEPT !.state = "serving"]
    /\ lastOp' = ApiOp("startup_event", None, None, 0)
    /\ result' = None
    /\ UNCHANGED <<current_call_id, backend, calls, written, store_pc, wrap,
                   query_pc>>

InitStartup ==
    /\ \E enabled \in EnabledSettings, storage_type \in StorageSettings,
          redis_port \in PortSettings, sample_rate \in RateSettings :
          service = [state |-> "starting",
                     env |-> Environ(enabled, storage_type, redis_port, sample_rate)]
    /\ config = DefaultConfig
    /\ metrics_collector = None
    /\ current_call_id = None
    /\ EmptyBackend
    /\ file_exists = FALSE
    /\ calls = [k \in Kinds |-> 0]
    /\ written = <<>>
    /\ lastOp = ApiOp("init", None, None, 0)
    /\ result = None
    /\ store_pc = NoStore
    /\ component = NoComponent
    /\ llm = None
    /\ tasks = <<>>
    /\ stream = NoStream
    /\ query_pc = NoQuery

ServeHealthCheck == service.state = "serving" /\ health_check

ServeGetCallMetrics ==
    /\ service.state = "serving"
    /\ \E c \in ApiCallIds : api_get_call_metrics(c)

NextStartup == startup \/ ServeHealthCheck \/ ServeGetCallMetrics

SpecStartup == InitStartup /\ [][NextStartup]_vars

(***************************************************************************)
(* Properties                                                              *)
(***************************************************************************)
RedisKeyList == CHOOSE o \in Orders(RedisKeys) : TRUE

\* the records the collector's backend holds, decoded, in some order
StoredRecords ==
    CASE create_storage(config) = "memory" -> metrics
      [] create_storage(config) = "file" -> LoadAll(file_lines)
      [] create_storage(config) = "redis" ->
            Flatten([i \in DOMAIN RedisKeyList |->
                        LoadAll(redis_lists[RedisKeyList[i]])])

StoredOfKind(kind) == SelectSeq(StoredRecords, LAMBDA m : m.metric_type = kind)

KindFlag(kind) ==
    CASE kind = "llm" -> config.collect_llm_metrics
      [] kind = "tts" -> config.collect_tts_metrics
      [] kind = "asr" -> config.collect_asr_metrics
      [] kind = "eou" -> config.collect_eou_metrics

TotalCalls == calls["llm"] + calls["tts"] + calls["asr"] + calls["eou"]

AllBackendsEmpty ==
    /\ metrics = <<>>
    /\ file_lines = <<>>
    /\ \A k \in RedisKeys : redis_lists[k] = <<>>

\* C1: with sample_rate = 0.0 the storage backend holds zero records, whatever
\* record_* calls were made.
C1_ZeroRateStoresNothing ==
    config.sample_rate = 0 => AllBackendsEmpty /\ written = <<>>

C1_Witness ==
    /\ config.sample_rate = 0
    /\ config.enabled
    /\ \A k \in Kinds : KindFlag(k)
    /\ TotalCalls >= 2
    /\ lastOp.op = "record"
    /\ lastOp.draw = 0

\* C2: with sample_rate = 1.0, collection enabled and a kind's flag on, the
\* number of stored records of that kind equals the number of record_* calls
\* of that kind, whatever the random draws were.
C2_FullRateStoresEveryCall ==
    (config.enabled /\ config.sample_rate = 100) =>
        \A k \in Kinds : KindFlag(k) => Len(StoredOfKind(k)) = calls[k]

C2_Witness ==
    /\ config.enabled
    /\ config.sample_rate = 100
    /\ \E k \in Kinds : KindFlag(k) /\ calls[k] >= 2 /\ Len(StoredOfKind(k)) >= 2
    /\ lastOp.op = "record"
    /\ lastOp.draw = 99

\* C3: a kind whose collection flag is off never has a stored record, even
\* with sample_rate = 1.0, while the calls for the kinds whose flag is on
\* store their records.
C3_DisabledKindStoresNothing ==
    \A k \in Kinds :
        ~KindFlag(k) =>
            /\ StoredOfKind(k) = <<>>
            /\ (config.enabled /\ config.sample_rate = 100) =>
                  \A other \in Kinds \ {k} :
                      KindFlag(other) => Len(StoredOfKind(other)) = calls[other]

C3_Witness ==
    /\ config.enabled
    /\ config.sample_rate = 100
    /\ ~config.collect_tts_metrics
    /\ calls["tts"] >= 1
    /\ calls["llm"] >= 1
    /\ Len(StoredOfKind("llm")) >= 1
    /\ StoredOfKind("tts") = <<>>

\* C4: a record_* call made while collection is globally disabled, or while
\* the kind's flag is off, or whose draw is not below sample_rate, makes no
\* backend call and leaves the stored records and the current call id as
\* they were.
C4_GatedCallIsNoOp ==
    [][\A k \in Kinds :
          (/\ calls'[k] = calls[k] + 1
           /\ (~config.enabled \/ ~KindFlag(k)
                 \/ ~(lastOp'.draw < config.sample_rate)))
          => /\ UNCHANGED <<backend, current_call_id, written>>
             /\ lastOp'.backend_calls = 0]_vars

C4_Witness ==
    /\ config.enabled
    /\ config.sample_rate = 50
    /\ \A k \in Kinds : KindFlag(k)
    /\ lastOp.op = "record"
    /\ lastOp.draw = 99
    /\ lastOp.backend_calls = 0
    /\ Len(StoredRecords) >= 1
    /\ current_call_id # None

\* the dict a store_metric call is expected to leave in the backend
ExpectedRecord(w) ==
    [f \in (DOMAIN w.metric) \cup {"metric_type"} |->
        IF f = "metric_type" THEN w.metric_type ELSE w.metric[f]]

ExpectedMatches(call_id, metric_type) ==
    SelectSeq([i \in DOMAIN written |-> ExpectedRecord(written[i])],
              LAMBDA m : /\ call_id # None => m.call_id = call_id
                         /\ metric_type # None => m.metric_type = metric_type)

BackendNames == {"memory", "file", "redis"}

\* C5: get_metrics(call_id, kind) returns exactly the stored records that
\* match every filter given: both filters, one filter, or none (all records),
\* on each of the three backends.
C5_FiltersAreConjunctive ==
    lastOp.op = "get_metrics" =>
        \A b \in BackendNames :
            SeqToBag(result[b]) =
                SeqToBag(ExpectedMatches(lastOp.arg, lastOp.kind))

C5_Witness ==
    /\ lastOp.op = "get_metrics"
    /\ lastOp.arg = "A"
    /\ lastOp.kind = "llm"
    /\ Len(result["memory"]) = 1
    /\ \E i \in DOMAIN written :
          written[i].metric.call_id = "A" /\ written[i].metric_type # "llm"
    /\ \E i \in DOMAIN written :
          written[i].metric.call_id # "A" /\ written[i].metric_type = "llm"

\* C6: the in-memory, file and key-value backends return the same sequence
\* of records (same records, same order) from every get_metrics call.
C6_BackendsReturnSameSequence ==
    lastOp.op = "get_metrics" =>
        /\ result["memory"] = result["file"]
        /\ result["memory"] = result["redis"]

\* C7: file backend round trip: get_metrics() after N store_metric calls
\* returns N records, each with all its original fields and the injected
\* metric_type; while the file does not exist get_metrics returns [].
C7_FileRoundTrip ==
    lastOp.op = "get_metrics" =>
        /\ (lastOp.arg = None /\ lastOp.kind = None) =>
              /\ Len(result["file"]) = Len(written)
              /\ \A i \in DOMAIN written :
                    /\ DOMAIN result["file"][i] =
                          (DOMAIN written[i].metric) \cup {"metric_type"}
                    /\ \A f \in DOMAIN written[i].metric :
                          result["file"][i][f] = written[i].metric[f]
                    /\ result["file"][i].metric_type = written[i].metric_type
        /\ ~file_exists => result["file"] = <<>>

C7_Witness ==
    /\ lastOp.op = "get_metrics"
    /\ lastOp.arg = None
    /\ lastOp.kind = None
    /\ Len(written) >= 2
    /\ Len(result["file"]) >= 2
    /\ written[1].metric_type # written[2].metric_type

\* C8: every stored LLM record has tokens_per_second = output_tokens /
\* total_time when total_time > 0 and exactly 0 when total_time = 0.
C8_TokensPerSecond ==
    \A i \in DOMAIN StoredRecords :
        LET m == StoredRecords[i]
        IN  m.metric_type = "llm" =>
              /\ m.total_time > 0 =>
                    /\ m.tokens_per_second[2] > 0
                    /\ m.tokens_per_second[1] * m.total_time =
                          m.output_tokens * m.tokens_per_second[2]
              /\ m.total_time = 0 => m.tokens_per_second = <<0, 1>>

C8_Witness ==
    /\ \E i \in DOMAIN StoredRecords :
          /\ StoredRecords[i].metric_type = "llm"
          /\ StoredRecords[i].total_time > 0
          /\ StoredRecords[i].output_tokens > 0
    /\ \E i \in DOMAIN StoredRecords :
          /\ StoredRecords[i].metric_type = "llm"
          /\ StoredRecords[i].total_time = 0

\* C9: a record built by a record_* call carries the collector's current
\* call id, or "unknown" when none has been set, and every record stored
\* earlier keeps the call id it was stored with.
C9_RecordCarriesCurrentCallId ==
    [][IF calls' # calls
       THEN \/ backend' = backend
            \/ LET old == StoredRecords
                   new == StoredRecords'
               IN  \E i \in DOMAIN new :
                      /\ new[i].call_id =
                            (IF current_call_id = None THEN "unknown"
                             ELSE current_call_id)
                      /\ old = SubSeq(new, 1, i - 1) \o SubSeq(new, i + 1, Len(new))
       ELSE backend' = backend]_vars

C9_Witness ==
    /\ current_call_id = "A"
    /\ lastOp.op = "record"
    /\ \E i \in DOMAIN StoredRecords : StoredRecords[i].call_id = "unknown"
    /\ \E i \in DOMAIN StoredRecords : StoredRecords[i].call_id = "A"

StoredOfCallAndKind(call_id, kind) ==
    SelectSeq(StoredRecords,
              LAMBDA m : m.call_id = call_id /\ m.metric_type = kind)

\* C10 as stated: get_call_metrics(c) returns exactly the keys llm, tts, asr,
\* eou, each holding exactly the stored records of that kind whose call_id is
\* c, the current call id standing in for an omitted c ("unknown", the call
\* id of the records built while none is set, when none is set), so that
\* every returned record belongs to the current call.
C10_CallMetricsOfCallOrCurrent ==
    lastOp.op = "get_call_metrics" =>
        LET c == IF lastOp.arg # None THEN lastOp.arg
                 ELSE IF current_call_id # None THEN current_call_id
                 ELSE "unknown"
        IN  /\ DOMAIN result = Kinds
            /\ \A k \in Kinds :
                  SeqToBag(result[k]) = SeqToBag(StoredOfCallAndKind(c, k))

\* C10 amended: as stated when c is given or a current call id is set; when
\* c is omitted and no call id has been set, no call filter is applied and
\* each key holds all stored records of its kind.
C10_CallMetricsOrAllCalls ==
    lastOp.op = "get_call_metrics" =>
        LET c == IF lastOp.arg # None THEN lastOp.arg ELSE current_call_id
        IN  /\ DOMAIN result = Kinds
            /\ \A k \in Kinds :
                  SeqToBag(result[k]) =
                      IF c # None
                      THEN SeqToBag(StoredOfCallAndKind(c, k))
                      ELSE SeqToBag(StoredOfKind(k))

C10_Witness ==
    /\ lastOp.op = "get_call_metrics"
    /\ lastOp.arg = None
    /\ current_call_id = "A"
    /\ Len(result["llm"]) = 1
    /\ \E i \in DOMAIN StoredRecords :
          /\ StoredRecords[i].metric_type = "llm"
          /\ StoredRecords[i].call_id = "unknown"

\* C11: in get_call_summary a kind with zero records for the call has no
\* entry in the summary, a kind with at least one record has its entry, and
\* the counts object always holds all four counts, each equal to the number
\* of stored records of that kind for the call (for all calls, when no call
\* id is given and none is set).
C11_SummaryEntriesAndCounts ==
    lastOp.op = "get_call_summary" =>
        LET c == IF lastOp.arg # None THEN lastOp.arg ELSE current_call_id
            n == [k \in Kinds |->
                    IF c # None THEN Len(StoredOfCallAndKind(c, k))
                    ELSE Len(StoredOfKind(k))]
        IN  /\ \A k \in Kinds : (k \in DOMAIN result) <=> (n[k] >= 1)
            /\ "counts" \in DOMAIN result
            /\ DOMAIN result["counts"] =
                  {"llm_requests", "tts_requests", "asr_requests", "eou_events"}
            /\ result["counts"]["llm_requests"] = n["llm"]
            /\ result["counts"]["tts_requests"] = n["tts"]
            /\ result["counts"]["asr_requests"] = n["asr"]
            /\ result["counts"]["eou_events"] = n["eou"]

C11_Witness ==
    /\ lastOp.op = "get_call_summary"
    /\ lastOp.arg = "A"
    /\ "llm" \in DOMAIN result
    /\ "tts" \notin DOMAIN result
    /\ result["counts"]["llm_requests"] = 1
    /\ result["counts"]["tts_requests"] = 0
    /\ \E i \in DOMAIN StoredRecords :
          /\ StoredRecords[i].call_id = "unknown"
          /\ StoredRecords[i].metric_type = "tts"

SummaryOfTestCallAfterOnePost ==
    /\ lastOp.op = "api_get_call_summary"
    /\ lastOp.arg = TestCallId
    /\ metrics_collector # None
    /\ \A k \in Kinds : calls[k] = 1

CountsAllOne ==
    /\ result.status = 200
    /\ result.body["counts"] = [llm_requests |-> 1, tts_requests |-> 1,
                                asr_requests |-> 1, eou_events |-> 1]

NothingStoredUnder(call_id) ==
    \A i \in DOMAIN written : written[i].metric.call_id # call_id

AllListsEmpty ==
    /\ result.status = 200
    /\ result.body = [llm |-> <<>>, tts |-> <<>>, asr |-> <<>>, eou |-> <<>>]

\* C13 as stated: GET /metrics/calls/{id} for a call id under which nothing
\* was ever stored returns a success response whose llm, tts, asr and eou
\* lists are all empty, whatever records exist for other call ids.
C13_UnknownCallIsEmptySuccess ==
    (lastOp.op = "api_get_call_metrics" /\ NothingStoredUnder(lastOp.arg))
    => AllListsEmpty

\* C13 amended: the same, when the collector is initialized.
C13_UnknownCallIsEmptySuccessWhenInitialized ==
    (/\ lastOp.op = "api_get_call_metrics"
     /\ NothingStoredUnder(lastOp.arg)
     /\ metrics_collector # None)
    => AllListsEmpty

C13_Witness ==
    /\ lastOp.op = "api_get_call_metrics"
    /\ lastOp.arg = "A"
    /\ metrics_collector # None
    /\ AllListsEmpty
    /\ Len(StoredRecords) = 4
    /\ \A i \in DOMAIN StoredRecords : StoredRecords[i].call_id = TestCallId

EndpointOps ==
    {"health_check", "api_get_call_metrics", "api_get_call_summary",
     "get_call_metrics_by_type", "get_performance_analytics",
     "create_test_metrics"}

\* C14 as stated: when the collector was never initialized, every Query
\* Service endpoint (GET /health, the three /metrics/calls endpoints, GET
\* /metrics/analytics/performance, POST /metrics/test) responds 503.
C14_EveryEndpoint503 ==
    (metrics_collector = None /\ lastOp.op \in EndpointOps) => result.status = 503

\* C14 amended: when the collector was never initialized, the three
\* /metrics/calls endpoints, GET /metrics/analytics/performance and POST
\* /metrics/test respond 503 and store nothing; GET /health responds 200 with
\* metrics_enabled false.
C14_Endpoints503HealthReports ==
    (metrics_collector = None /\ lastOp.op \in EndpointOps) =>
        /\ lastOp.op # "health_check" => result.status = 503
        /\ lastOp.op = "health_check" =>
              /\ result.status = 200
              /\ result.body = [status |-> "healthy", metrics_enabled |-> FALSE]
        /\ AllBackendsEmpty

C14_Witness ==
    /\ metrics_collector = None
    /\ ~config.enabled
    /\ lastOp.op = "create_test_metrics"
    /\ result.status = 503
    /\ AllBackendsEmpty

\* C15: with an initialized collector, GET /metrics/calls/{call_id}/{metric_type}
\* responds 400 for every metric_type outside {llm, tts, asr, eou} that
\* reaches this route, and does so without reading the backend.
C15_InvalidTypeIs400WithoutRead ==
    (/\ lastOp.op = "get_call_metrics_by_type"
     /\ metrics_collector # None
     /\ lastOp.kind \notin {"llm", "tts", "asr", "eou"})
    => /\ result.status = 400
       /\ lastOp.backend_calls = 0

C15_Witness ==
    /\ lastOp.op = "get_call_metrics_by_type"
    /\ metrics_collector # None
    /\ lastOp.kind = "LLM"
    /\ lastOp.arg = TestCallId
    /\ result.status = 400
    /\ \E i \in DOMAIN StoredRecords :
          /\ StoredRecords[i].call_id = TestCallId
          /\ StoredRecords[i].metric_type = "llm"

\* C16: a failure of the backend's store_metric is never raised out of a
\* record_* call: the failure is dropped and record_* returns normally to
\* its caller.
C16_StoreFailureNotRaised == lastOp.op = "record" => result # Raised

\* v is the element at (0-based) index i of the ascending-sorted xs
IsAtSortedIndex(xs, i, v) ==
    /\ \E j \in DOMAIN xs : xs[j] = v
    /\ Cardinality({j \in DOMAIN xs : xs[j] < v}) <= i
    /\ Cardinality({j \in DOMAIN xs : xs[j] <= v}) >= i + 1

\* C17: for every kind with n >= 1 records, the analytics p95 is the element
\* at index floor(0.95 * n) of the ascending-sorted primary latency values
\* (the single element when n = 1); that index is always within 0..n-1, so
\* the computation never fails, and for the values 1, 2, 3, 4, 5 (tenths) it
\* is index 4, value 5.
C17_P95IsNearestRank ==
    lastOp.op = "get_performance_analytics" =>
        /\ result.status = 200
        /\ \A n \in 2..MaxCount : P95Index(n) \in 0..(n - 1)
        /\ \A k \in Kinds :
              LET xs == Column(SelectSeq(metrics, LAMBDA m : m.metric_type = k),
                               PrimaryField(k))
                  n == Len(xs)
                  i == (95 * n) \div 100
              IN  n >= 1 =>
                    /\ i \in 0..(n - 1)
                    /\ k \in DOMAIN result.body
                    /\ IsAtSortedIndex(xs, i, result.body[k][P95Field(k)])
                    /\ n = 1 => result.body[k][P95Field(k)] = xs[1]
                    /\ (\A v \in 1..5 : \E j \in DOMAIN xs : xs[j] = v) /\ n = 5
                          => i = 4 /\ result.body[k][P95Field(k)] = 5

C17_Witness ==
    /\ lastOp.op = "get_performance_analytics"
    /\ lastOp.arg = None
    /\ Column(metrics, "metric_type") = <<"tts", "tts", "tts", "tts", "tts">>
    /\ Column(metrics, "ttfb") = <<3, 1, 5, 2, 4>>
    /\ result.status = 200
    /\ result.body["tts"]["p95_ttfb"] = 5
    /\ result.body["tts"]["count"] = 5

IsPrefix(old, new) == Len(old) <= Len(new) /\ SubSeq(new, 1, Len(old)) = old

IsSuffix(old, new) ==
    Len(old) <= Len(new) /\ SubSeq(new, Len(new) - Len(old) + 1, Len(new)) = old

\* C18: the stored record set is append-only: after any sequence of record_*,
\* set_call_id and query operations, every record that was stored earlier is
\* still stored with all its field values unchanged, and the sequence held
\* by the in-memory backend only ever grows by appending at the end.
C18_StoredRecordsAppendOnly ==
    [][/\ IsPrefix(metrics, metrics')
       /\ IsPrefix(file_lines, file_lines')
       /\ \A k \in RedisKeys : IsSuffix(redis_lists[k], redis_lists'[k])
       /\ (lastOp'.op # "record") => backend' = backend]_vars

C18_Witness ==
    /\ create_storage(config) = "memory"
    /\ Len(metrics) = 2
    /\ metrics[1].call_id = "unknown"
    /\ metrics[2].call_id = "A"
    /\ metrics[1].metric_type # metrics[2].metric_type
    /\ lastOp.op = "get_call_summary"

\* C19: in the key-value backend, every key metrics:{call_id} that holds at
\* least one record carries a 24-hour expiry, in every reachable state,
\* including states between the push and the expire step of store_metric and
\* states after the expire step fails.
C19_EveryKeyWithRecordsExpires ==
    \A k \in RedisKeys : redis_lists[k] # <<>> => redis_ttl[k] = RedisExpire

\* C20: calling the intercepted entry point of a language-model client
\* wrapped with metrics gives the caller the same observable result as
\* calling the original method with the same arguments: the same returned
\* (or awaited) value for a single-shot method and the same chunks in the
\* same order for a streaming method, for sync functions, coroutine
\* functions, sync generators and async generators alike.
C20_WrappedCallSameResult ==
    lastOp.op = "call_wrapped" =>
        \/ /\ llm.method \in {"sync_function", "coroutine_function"}
           /\ result = Observation("returned", "value", llm.output)
        \/ /\ llm.method = "sync_generator"
           /\ result = Observation("returned", "iterator", llm.output)
        \/ /\ llm.method = "async_generator"
           /\ result = Observation("returned", "async_iterator", llm.output)

\* C21: when the language-model client has none of the known generation
\* method names, wrap_with_metrics(component, "llm", collector) returns the
\* original object itself with none of its attributes replaced; it also
\* returns the original object whenever wrapping raises.
C21_NoMethodReturnsOriginal ==
    (/\ lastOp.op = "wrap_with_metrics"
     /\ lastOp.kind = "llm"
     /\ lastOp.arg # None) =>
        /\ generation_method(component.methods) = None =>
              /\ result.returned = "component"
              /\ component.replaced = {}
        /\ MetricsLLMWrapper_init(component, TRUE).raises =>
              result.returned = "component"

\* C22: for a streaming language-model response the wrapper schedules
\* exactly one record_llm_metric per call, only after the last chunk has been
\* yielded to the caller, with ttft the elapsed time at the first chunk and
\* total_time the elapsed time at stream end; no metric is scheduled before
\* the stream is exhausted.
C22_StreamMetricAfterExhaustion ==
    (llm.method \in {"sync_generator", "async_generator"} /\ llm.loop) =>
        /\ stream.pc = "iterating" => stream.scheduled = <<>>
        /\ stream.pc = "done" =>
              /\ Len(stream.scheduled) = 1
              /\ stream.scheduled[1].yielded_before = Len(llm.output)
              /\ stream.scheduled[1].total_time = stream.end_at
              /\ stream.yielded > 0 =>
                    stream.scheduled[1].ttft = stream.first_at
              /\ stream.scheduled[1].ttft <= stream.scheduled[1].total_time

\* C28: a metric whose recording an instrumentation wrapper scheduled
\* (asyncio.create_task of record_*) while call id A was current is stored
\* with call_id A, also when set_call_id(B) runs between the scheduling and
\* the execution of the task.
C28_StoredUnderSchedulingCallId ==
    (/\ lastOp.op = "record"
     /\ lastOp.backend_calls = 1
     /\ Truthy(lastOp.arg)) =>
        written[Len(written)].metric.call_id = lastOp.arg

\* C23: for any interleaving of several record_* tasks running against the
\* one shared backend instance (in-memory or file), once all tasks have
\* completed the backend holds exactly one intact record per task that
\* passed the gates: none is lost, duplicated or merged with another.
C23_OneIntactRecordPerTask ==
    tasks = <<>> =>
        /\ calls["llm"] = stream.made
        /\ Len(written) <= calls["llm"]
        /\ config.sample_rate = 100 => Len(StoredRecords) = calls["llm"]
        /\ SeqToBag(StoredRecords) =
              SeqToBag([i \in DOMAIN written |-> ExpectedRecord(written[i])])
        /\ \A i \in DOMAIN StoredRecords :
              /\ DOMAIN StoredRecords[i] =
                    {FieldOrder("llm")[j] : j \in DOMAIN FieldOrder("llm")}
                        \cup {"metric_type"}
              /\ StoredRecords[i].metric_type = "llm"

\* two tasks were pending together and the one created first completed last
C23_Witness ==
    /\ tasks = <<>>
    /\ stream.made >= 2
    /\ lastOp.op = "record"
    /\ lastOp.task = 0
    /\ lastOp.backend_calls = 1
    /\ Len(StoredRecords) >= 2
    /\ create_storage(config) = "file"

\* C24: an invalid metric-type filter (a value outside {llm, tts, asr, eou})
\* passed to GET /metrics/analytics/performance is answered with a 400
\* error, not with a success response.
C24_InvalidAnalyticsFilterIs400 ==
    (/\ lastOp.op = "get_performance_analytics"
     /\ metrics_collector # None
     /\ lastOp.kind \notin Kinds \cup {None}) =>
        result.status = 400

\* C25: a configuration error at startup of the Query Service (malformed
\* settings such as an unparsable sampling rate or port) is fatal: the
\* service refuses to initialize and never reaches a state in which it
\* serves requests.
C25_ConfigErrorIsFatal ==
    from_env(service.env).raises =>
        /\ service.state # "serving"
        /\ lastOp.op \notin {"health_check", "api_get_call_metrics"}

\* C26: GET /metrics/analytics/performance with no call filter groups the
\* full record set by kind: for each kind the reported count is the number
\* of stored records of that kind across all call ids, and a kind with no
\* records, or excluded by the metric_type filter, is absent from the
\* result; with a call filter the counts are those of that call's records.
C26_AnalyticsCountsByKind ==
    lastOp.op = "get_performance_analytics" =>
        /\ result.status = 200
        /\ \A k \in Kinds :
              LET counted == IF Truthy(lastOp.arg)
                             THEN Len(StoredOfCallAndKind(lastOp.arg, k))
                             ELSE Len(StoredOfKind(k))
                  included == lastOp.kind = None \/ lastOp.kind = k
              IN /\ k \in DOMAIN result.body <=> (included /\ counted > 0)
                 /\ k \in DOMAIN result.body => result.body[k].count = counted
        /\ DOMAIN result.body \subseteq Kinds

\* unfiltered analytics over two llm records of two different calls
C26_Witness ==
    /\ lastOp.op = "get_performance_analytics"
    /\ lastOp.arg = None
    /\ lastOp.kind = None
    /\ Len(StoredOfCallAndKind("A", "llm")) = 1
    /\ Len(StoredOfCallAndKind("unknown", "llm")) = 1
    /\ result.status = 200
    /\ result.body["llm"].count = 2
    /\ create_storage(config) = "redis"

\* C27: GET /metrics/calls/{call_id}/{metric_type} with a result-count
\* limit L returns at most L records, namely the first min(L, n) of the n
\* records of that kind for the call, and the reported count is the number
\* of records returned, for every integer L supplied, 0 included.
C27_LimitBoundsTheResult ==
    (/\ lastOp.op = "get_call_metrics_by_type"
     /\ result.status = 200
     /\ lastOp.limit # <<>>) =>
        LET L == lastOp.limit[1]
            all == collector_get_call_metrics(lastOp.arg, <<>>)[lastOp.kind]
            n == Len(all)
        IN /\ Len(result.body.metrics) <= L
           /\ result.body.metrics = SubSeq(all, 1, IF L < n THEN L ELSE n)
           /\ result.body.count = Len(result.body.metrics)

QueryOps ==
    {"get_call_metrics", "get_call_summary", "api_get_call_metrics",
     "api_get_call_summary", "get_call_metrics_by_type",
     "get_performance_analytics", "health_check"}

\* C29: get_call_metrics, get_call_summary and the GET endpoints built on
\* them (analytics included) are read-only: they leave the stored records
\* and the collector's current call id unchanged, so that the record_*
\* operations are the only writers of backend state.
C29_QueriesAreReadOnly ==
    [][/\ lastOp'.op \in QueryOps => UNCHANGED <<backend, current_call_id>>
       /\ backend' # backend => lastOp'.op = "create_test_metrics"]_vars

\* a summary was computed by the collector over a backend that holds records
C29_Witness ==
    /\ lastOp.op = "get_call_summary"
    /\ lastOp.arg = "A"
    /\ current_call_id = TestCallId
    /\ Len(StoredRecords) >= 3
    /\ result.counts.llm_requests = 0

\* C30: the call_id field of the object get_call_summary returns names the
\* call whose records were counted and aggregated in that summary, also when
\* call_id is omitted and set_call_id runs while the four backend reads of
\* get_call_metrics are suspended (key-value backend).
C30_SummaryNamesTheCallCounted ==
    (lastOp.op = "get_call_summary" /\ Truthy(lastOp.arg)) =>
        /\ result.call_id = lastOp.arg
        /\ result.counts.llm_requests =
              Len(StoredOfCallAndKind(result.call_id, "llm"))

====
